---- MODULE Spec2Model ----
(***************************************************************************)
(* A model of gittask's storage core: the file store over one location     *)
(* (src/storage/file_store.rs), the identifier scan                        *)
(* (src/storage/id_generator.rs), the file name scheme                     *)
(* (src/models/task.rs) and the record codec (src/models/frontmatter.rs).  *)
(*                                                                         *)
(* Text (titles, file names, descriptions) is a sequence of one-character  *)
(* strings.  Option<T> is a sequence of length 0 (None) or 1 (Some).       *)
(* The records directory is a function from file name to file content.     *)
(* Every std::fs call is one step: it either takes effect or fails with no *)
(* effect.  The mutating calls (fs::write, fs::remove_file) may fail;      *)
(* scans and reads of an existing directory succeed.                       *)
(***************************************************************************)
EXTENDS Integers, Sequences, FiniteSets, TLC

\* Largest identifier create may assign in the model (caps the id counter).
MaxId == 3

None == <<>>

Some(x) == <<x>>

----------------------------------------------------------------------------
\* Characters and text

DigitChars == <<"0", "1", "2", "3", "4", "5", "6", "7", "8", "9">>

IsDigit(c) == \E i \in 1..10 : DigitChars[i] = c

DigitVal(c) == (CHOOSE i \in 1..10 : DigitChars[i] = c) - 1

IsLower(c) == c \in {"a", "b"}

IsUpper(c) == c \in {"A", "B"}

ToLower(c) == IF c = "A" THEN "a" ELSE IF c = "B" THEN "b" ELSE c

IsWhitespace(c) == c \in {" ", "\n"}

\* Index of the last occurrence of c in s, 0 when there is none (str::rfind).
RECURSIVE RFind(_, _)
RFind(s, c) ==
    IF s = <<>> THEN 0
    ELSE IF s[Len(s)] = c THEN Len(s)
    ELSE RFind(SubSeq(s, 1, Len(s) - 1), c)

RECURSIVE TrimStart(_)
TrimStart(s) ==
    IF s # <<>> /\ IsWhitespace(s[1]) THEN TrimStart(Tail(s)) ELSE s

RECURSIVE TrimEnd(_)
TrimEnd(s) ==
    IF s # <<>> /\ IsWhitespace(s[Len(s)])
    THEN TrimEnd(SubSeq(s, 1, Len(s) - 1))
    ELSE s

\* Mutant: only the leading whitespace is removed.
TrimLeadingOnly(s) == TrimStart(s)

Trim(s) == TrimEnd(TrimStart(s))

----------------------------------------------------------------------------
\* The file name scheme

\* slug::slugify: letters and digits are kept in lower case, every run of
\* other characters becomes one hyphen, no hyphen leads or trails.
RECURSIVE SlugFrom(_, _, _)
SlugFrom(s, acc, prevDash) ==
    IF s = <<>>
    THEN IF acc # <<>> /\ acc[Len(acc)] = "-"
         THEN SubSeq(acc, 1, Len(acc) - 1)
         ELSE acc
    ELSE LET c == s[1] IN
         IF IsLower(c) \/ IsDigit(c) \/ IsUpper(c)
         THEN SlugFrom(Tail(s), Append(acc, ToLower(c)), FALSE)
         ELSE IF prevDash
              THEN SlugFrom(Tail(s), acc, TRUE)
              ELSE SlugFrom(Tail(s), Append(acc, "-"), TRUE)

Slug(task) == SlugFrom(task.title, <<>>, TRUE)

\* The decimal digits of n at natural width.
RECURSIVE ToDigits(_)
ToDigits(n) ==
    IF n < 10 THEN <<DigitChars[n + 1]>>
    ELSE Append(ToDigits(n \div 10), DigitChars[(n % 10) + 1])

\* format!("{:03}", n): zero-padded to three digits, wider numbers as they are.
RECURSIVE PadLeft(_, _)
PadLeft(ds, width) ==
    IF Len(ds) >= width THEN ds ELSE PadLeft(<<"0">> \o ds, width)

\* Mutant: the identifier is written without padding.
PadNone(n) == ToDigits(n)

Pad3(n) == PadLeft(ToDigits(n), 3)

Filename(task) == Slug(task) \o <<"-">> \o Pad3(task.id) \o <<".", "m", "d">>

\* Path::extension: the text after the last dot, unless the name has no dot or
\* its only dot is the first character.
Extension(name) ==
    LET dot == RFind(name, ".") IN
    IF dot > 1 THEN Some(SubSeq(name, dot + 1, Len(name))) ELSE None

\* Path::file_stem: the name without its extension.
FileStem(name) ==
    LET dot == RFind(name, ".") IN
    IF dot > 1 THEN SubSeq(name, 1, dot - 1) ELSE name

IsMd(name) == Extension(name) = Some(<<"m", "d">>)

RECURSIVE DigitsValue(_)
DigitsValue(ds) ==
    IF ds = <<>> THEN 0
    ELSE 10 * DigitsValue(SubSeq(ds, 1, Len(ds) - 1)) + DigitVal(ds[Len(ds)])

\* str::parse::<u64>: a non-empty run of decimal digits, after an optional "+".
\* (A value above u64::MAX is an error in the code; the identifiers of the
\* model stay far below it.)
ParseU64(s) ==
    LET ds == IF s # <<>> /\ s[1] = "+" THEN Tail(s) ELSE s IN
    IF ds # <<>> /\ \A i \in 1..Len(ds) : IsDigit(ds[i])
    THEN Some(DigitsValue(ds))
    ELSE None

\* Mutant: the identifier is read after the first hyphen of the stem.
ExtractIdAfterFirstHyphen(name) ==
    LET stem == FileStem(name)
        hyphens == { i \in 1..Len(stem) : stem[i] = "-" }
    IN  IF hyphens # {}
        THEN LET first == CHOOSE i \in hyphens : \A j \in hyphens : i <= j IN
             ParseU64(SubSeq(stem, first + 1, Len(stem)))
        ELSE None

ExtractIdFromFilename(name) ==
    LET stem == FileStem(name)
        lastHyphen == RFind(stem, "-")
    IN  IF lastHyphen > 0
        THEN ParseU64(SubSeq(stem, lastHyphen + 1, Len(stem)))
        ELSE None

----------------------------------------------------------------------------
\* Records and the record codec

\* Task::new(0, kind, title) with the fields a caller may set before the store
\* sees the record.
MkTask(title, kind, status, priority, tags, due, commit, description) ==
    [id |-> 0, title |-> title, status |-> status, priority |-> priority,
     kind |-> kind, tags |-> tags, due |-> due, created |-> 1, updated |-> 1,
     closed_commit |-> commit, description |-> description]

\* The records callers hand to create and update.  Titles: two with the same
\* slug, one whose slug ends in a digit, one whose slug is empty.
Drafts ==
    { MkTask(<<"A">>, "task", "pending", "medium", <<>>, None, None, <<>>),
      MkTask(<<"a", "!">>, "todo", "completed", "high", <<"bug">>, Some(5),
             Some("abc123"), <<"x">>),
      MkTask(<<"B", " ", "1">>, "idea", "archived", "low", <<"bug", "ui">>,
             None, None, <<" ", "x">>),
      MkTask(<<"!">>, "task", "in-progress", "critical", <<>>, Some(5), None,
             <<>>) }

\* serialize_task: the frontmatter block and the body of the file.  An empty
\* tag list, an absent due date and an absent closed_commit are left out of
\* the block (skip_serializing_if); the description is not part of the block.
SerializeTask(task) ==
    [fm |-> [id |-> Some(task.id), title |-> Some(task.title),
             status |-> Some(task.status), priority |-> Some(task.priority),
             kind |-> Some(task.kind),
             tags |-> IF task.tags = <<>> THEN None ELSE Some(task.tags),
             due |-> task.due,
             created |-> Some(task.created), updated |-> Some(task.updated),
             closed_commit |-> task.closed_commit],
     body |-> IF task.description = <<>>
              THEN <<>>
              ELSE <<"\n">> \o task.description \o <<"\n">>]

\* parse_task: a key left out of the block takes its serde default; the
\* description is the trimmed body.  None when id or title is missing.
ParseTask(content) ==
    LET fm == content.fm
        get(field, default) == IF field = None THEN default ELSE field[1]
    IN  IF fm.id = None \/ fm.title = None \/ fm.created = None
           \/ fm.updated = None
        THEN None
        ELSE Some([id |-> fm.id[1], title |-> fm.title[1],
                   status |-> get(fm.status, "pending"),
                   priority |-> get(fm.priority, "medium"),
                   kind |-> get(fm.kind, "task"),
                   tags |-> get(fm.tags, <<>>),
                   due |-> fm.due,
                   created |-> fm.created[1], updated |-> fm.updated[1],
                   closed_commit |-> fm.closed_commit,
                   description |-> Trim(content.body)])

----------------------------------------------------------------------------
\* The identifier scan

RECURSIVE SetMax(_)
SetMax(S) ==
    IF S = {} THEN 0
    ELSE LET x == CHOOSE y \in S : TRUE
             m == SetMax(S \ {x})
         IN  IF x > m THEN x ELSE m

\* Mutant: the scan decodes every entry, whatever its extension.
DecodedIdsAnyExtension(fs) ==
    { ExtractIdFromFilename(n)[1] :
        n \in { m \in DOMAIN fs : ExtractIdFromFilename(m) # None } }

\* The identifiers decoded from the .md entries of a directory listing.
DecodedIds(fs) ==
    { ExtractIdFromFilename(n)[1] :
        n \in { m \in DOMAIN fs : IsMd(m) /\ ExtractIdFromFilename(m) # None } }

FindMaxId(ex, fs) ==
    IF ~ex THEN 0 ELSE SetMax(DecodedIds(fs))

\* Mutant: the scan's maximum is returned without the increment.
NextIdNoIncrement(ex, fs) == FindMaxId(ex, fs)

NextId(ex, fs) == FindMaxId(ex, fs) + 1

----------------------------------------------------------------------------
\* The file store over one location

VARIABLES
    dirExists,    \* whether the records directory (tasks_dir) exists
    files,        \* the records directory: file name -> file content
    result,       \* the call last made and what it returned
    prev,         \* history: the directory as it was when that call began
    createLog,    \* history: the ids returned by the successful creates, kept
                  \*   while only create and read calls have been made
    onlyCreates,  \* history: no update or delete call has been made yet
    projects,     \* the project registry in memory (ProjectRegistry::projects)
    registryFile, \* the registry file: None when absent, else its text
    disk,         \* the directories outside the location: path -> what is there
    procs         \* the calls in progress in concurrent processes:
                  \*   process -> its position and its local variables

vars == <<dirExists, files, result, prev, createLog, onlyCreates, projects,
          registryFile, disk, procs>>

\* No call in progress: every call runs from its beginning to its end.
NoProcesses == procs = <<>>

\* No registry and nothing outside the location: the state of the registry
\* and of the other directories while the file store alone is exercised.
NoRegistry ==
    /\ projects = {}
    /\ registryFile = None
    /\ disk = <<>>

Ids == 1..MaxId

EmptyDir == [n \in {} |-> None]

\* std::fs::write(path, content): creates the file or replaces its content.
WriteFile(fs, name, content) ==
    [n \in (DOMAIN fs) \cup {name} |-> IF n = name THEN content ELSE fs[n]]

\* std::fs::remove_file(path)
RemoveFile(fs, name) == [n \in (DOMAIN fs) \ {name} |-> fs[n]]

\* Mutant: the records directory is taken to exist.
LocationExistsAlways(ex) == TRUE

\* TaskLocation::exists
LocationExists(ex) == ex

TaskPath(task) == Filename(task)

\* Mutant: the scan does not compare the decoded id with the one sought.
FindTaskFileAnyId(ex, fs, id) ==
    IF ~ex
    THEN [err |-> "DirectoryNotInitialized", paths |-> {}]
    ELSE LET found == { n \in DOMAIN fs :
                          IsMd(n) /\ ExtractIdFromFilename(n) # None }
         IN  IF found = {}
             THEN [err |-> "TaskNotFound", paths |-> {}]
             ELSE [err |-> "Ok", paths |-> found]

\* find_task_file: the .md entries whose decoded id is `id`.  read_dir yields
\* the entries in no specified order and the first match is returned, so with
\* several matches any of them may be the one found.
FindTaskFile(ex, fs, id) ==
    IF ~LocationExists(ex)
    THEN [err |-> "DirectoryNotInitialized", paths |-> {}]
    ELSE LET found == { n \in DOMAIN fs :
                          IsMd(n) /\ ExtractIdFromFilename(n) = Some(id) }
         IN  IF found = {}
             THEN [err |-> "TaskNotFound", paths |-> {}]
             ELSE [err |-> "Ok", paths |-> found]

Result(op, err, id, task) == [op |-> op, err |-> err, id |-> id, task |-> task]

\* What read(id) may return in a directory state.
ReadResults(ex, fs, id) ==
    LET found == FindTaskFile(ex, fs, id) IN
    IF found.err # "Ok"
    THEN { Result("read", found.err, Some(id), None) }
    ELSE { IF ParseTask(fs[p]) = None
           THEN Result("read", "Frontmatter", Some(id), None)
           ELSE Result("read", "Ok", Some(id), ParseTask(fs[p])) :
           p \in found.paths }

\* Mutant: the record is serialized with the placeholder id of the draft.
CreateFilesPlaceholderId(fs, task) ==
    WriteFile(fs, TaskPath(task), SerializeTask([task EXCEPT !.id = 0]))

\* The directory after create's write of the record under its assigned id.
CreateFiles(fs, task) == WriteFile(fs, TaskPath(task), SerializeTask(task))

\* Mutant: the old file is kept when the name changes.
UpdateFilesKeepOld(fs, oldPath, task, wrOk) ==
    IF wrOk THEN WriteFile(fs, TaskPath(task), SerializeTask(task)) ELSE fs

\* Mutant: the record is rewritten where it was found, whatever its title.
UpdateFilesInPlace(fs, oldPath, task, wrOk) ==
    IF wrOk THEN WriteFile(fs, oldPath, SerializeTask(task)) ELSE fs

\* The directory after update found old_path: the old file is removed when the
\* name changes, then the record is written under its current name.  wrOk
\* tells whether that write took effect.
UpdateFiles(fs, oldPath, task, wrOk) ==
    LET newPath == TaskPath(task)
        removed == IF oldPath # newPath THEN RemoveFile(fs, oldPath) ELSE fs
    IN  IF wrOk
        THEN WriteFile(removed, newPath, SerializeTask(task))
        ELSE removed

\* Mutant: the whole directory is emptied.
DeleteFilesAll(fs, path) == EmptyDir

\* The directory after delete found path.
DeleteFiles(fs, path) == RemoveFile(fs, path)

\* One call: the directory it leaves, what it returned, and the histories.
Step(ex2, fs2, res) ==
    /\ dirExists' = ex2
    /\ files' = fs2
    /\ result' = res
    /\ prev' = [dirExists |-> dirExists, files |-> files]
    /\ onlyCreates' = (onlyCreates /\ res.op \in {"init", "create", "read"})
    /\ createLog' =
         IF ~onlyCreates' THEN <<>>
         ELSE IF res.op = "create" /\ res.err = "Ok"
              THEN Append(createLog, res.id[1])
              ELSE createLog
    /\ UNCHANGED <<projects, registryFile, disk, procs>>

Init ==
    /\ dirExists = FALSE
    /\ files = EmptyDir
    /\ result = Result("none", "Ok", None, None)
    /\ prev = [dirExists |-> FALSE, files |-> EmptyDir]
    /\ createLog = <<>>
    /\ onlyCreates = TRUE
    /\ NoRegistry
    /\ NoProcesses

\* TaskLocation::ensure_exists
EnsureExists ==
    IF ~dirExists
    THEN Step(TRUE, files, Result("init", "Ok", None, None))
    ELSE Step(dirExists, files, Result("init", "Ok", None, None))

\* FileStore::create
Create(draft) ==
    IF ~LocationExists(dirExists)
    THEN Step(dirExists, files,
              Result("create", "DirectoryNotInitialized", None, None))
    ELSE LET id == NextId(dirExists, files)
             task == [draft EXCEPT !.id = id]
         IN  /\ id <= MaxId
             /\ \E wrOk \in BOOLEAN :
                  IF wrOk
                  THEN Step(dirExists, CreateFiles(files, task),
                            Result("create", "Ok", Some(id), Some(task)))
                  ELSE Step(dirExists, files,
                            Result("create", "Io", None, None))

\* FileStore::read
Read(id) ==
    \E r \in ReadResults(dirExists, files, id) :
        Step(dirExists, files, r)

\* FileStore::update
Update(task) ==
    LET found == FindTaskFile(dirExists, files, task.id)
        res(err) == Result("update", err, Some(task.id), Some(task))
    IN  IF found.err # "Ok"
        THEN Step(dirExists, files, res(found.err))
        ELSE \E oldPath \in found.paths :
               \/ /\ oldPath # TaskPath(task)
                  /\ Step(dirExists, files, res("Io"))
               \/ \E wrOk \in BOOLEAN :
                    Step(dirExists, UpdateFiles(files, oldPath, task, wrOk),
                         res(IF wrOk THEN "Ok" ELSE "Io"))

\* FileStore::delete
Delete(id) ==
    LET found == FindTaskFile(dirExists, files, id) IN
    IF found.err # "Ok"
    THEN Step(dirExists, files,
              Result("delete", found.err, Some(id), None))
    ELSE \E path \in found.paths, rmOk \in BOOLEAN :
           IF rmOk
           THEN Step(dirExists, DeleteFiles(files, path),
                     Result("delete", "Ok", Some(id), None))
           ELSE Step(dirExists, files,
                     Result("delete", "Io", Some(id), None))

Next ==
    \/ EnsureExists
    \/ \E draft \in Drafts : Create(draft)
    \/ \E id \in 0..MaxId : Read(id)
    \/ \E id \in 0..MaxId, draft \in Drafts : Update([draft EXCEPT !.id = id])
    \/ \E id \in 0..MaxId : Delete(id)

Spec == Init /\ [][Next]_vars

----------------------------------------------------------------------------
\* Properties

\* The .md files of a directory whose name decodes to id.
Carriers(fs, id) ==
    { n \in DOMAIN fs : IsMd(n) /\ ExtractIdFromFilename(n) = Some(id) }

\* The slug part of a record file name: the stem before its last hyphen.
NameSlug(name) ==
    LET stem == FileStem(name) IN SubSeq(stem, 1, RFind(stem, "-") - 1)

\* The fields a read is compared on.
Listed(t) ==
    <<t.id, t.title, t.kind, t.status, t.priority, t.tags, t.due,
      t.closed_commit>>

\* What read(id) gives in a directory: the listed fields of the record, or
\* "fails".
ReadView(ex, fs, id) ==
    { IF r.err = "Ok" THEN <<"record", Listed(r.task[1])>> ELSE <<"fails">> :
        r \in ReadResults(ex, fs, id) }

\* C1: from an initialized empty location, as long as only create (and read)
\* calls have been made, the k-th successful create returned identifier k.
C1_SequentialIds ==
    onlyCreates => \A k \in 1..Len(createLog) : createLog[k] = k

C1_Witness == onlyCreates /\ Len(createLog) = MaxId

\* C2: in every state reached from the empty location by create, update and
\* delete calls, no two .md files decode to the same identifier.
C2_UniqueIds ==
    \A n1 \in DOMAIN files, n2 \in DOMAIN files :
        (/\ IsMd(n1) /\ IsMd(n2)
         /\ ExtractIdFromFilename(n1) # None
         /\ ExtractIdFromFilename(n1) = ExtractIdFromFilename(n2)) => n1 = n2

C2_Witness ==
    /\ Cardinality(DOMAIN files) = MaxId
    /\ result.op = "update" /\ result.err = "Ok"
    /\ DOMAIN files # DOMAIN prev.files

\* C3: the name of every record file is encode() of the record stored in it:
\* the id decoded from the name is the id in the file's metadata and the slug
\* in the name is the slug of the stored title.
C3_FilenameEncodesRecord ==
    \A n \in DOMAIN files :
        LET t == ParseTask(files[n]) IN
        /\ t # None
        /\ n = Filename(t[1])
        /\ ExtractIdFromFilename(n) = Some(t[1].id)
        /\ NameSlug(n) = SlugFrom(t[1].title, <<>>, TRUE)

C3_Witness ==
    /\ result.op = "update" /\ result.err = "Ok"
    /\ DOMAIN files # DOMAIN prev.files
    /\ Cardinality(DOMAIN files) >= 2

\* C4 (as amended): after update(record) succeeds with a title different from
\* the stored one, read(record.id) succeeds and returns the new title, exactly
\* one file carries the identifier, and the file named after the old title no
\* longer exists when the two titles have different slugs.
C4_UpdateTitle ==
    (result.op = "update" /\ result.err = "Ok") =>
        LET id == result.id[1]
            new == result.task[1]
        IN  \A b \in ReadResults(prev.dirExists, prev.files, id) :
              (b.err = "Ok" /\ b.task[1].title # new.title) =>
                /\ \A r \in ReadResults(dirExists, files, id) :
                       r.err = "Ok" /\ r.task[1].title = new.title
                /\ Cardinality(Carriers(files, id)) = 1
                /\ (Slug(b.task[1]) # Slug(new)
                      => Filename(b.task[1]) \notin DOMAIN files)

C4_Witness ==
    /\ result.op = "update" /\ result.err = "Ok"
    /\ \E b \in ReadResults(prev.dirExists, prev.files, result.id[1]) :
         /\ b.err = "Ok"
         /\ b.task[1].title # result.task[1].title
         /\ Slug(b.task[1]) # Slug(result.task[1])

\* C4 as stated: after a successful update with a title different from the
\* stored one, the file named after the old title no longer exists.
C4_OldFileGone ==
    (result.op = "update" /\ result.err = "Ok") =>
        \A b \in ReadResults(prev.dirExists, prev.files, result.id[1]) :
          (b.err = "Ok" /\ b.task[1].title # result.task[1].title) =>
            Filename(b.task[1]) \notin DOMAIN files

\* C5: the store is a map from identifier to record.  Stated call by call: a
\* successful create or update of id makes read(id) return that record, a
\* successful delete of id makes read(id) fail, and every other call (another
\* id, or a call that failed) leaves what read(id) returns as it was; at the
\* start every read fails.
C5_MapRefinement ==
    \A id \in 0..MaxId :
        LET now == ReadView(dirExists, files, id)
            before == ReadView(prev.dirExists, prev.files, id)
        IN  IF result.op = "none"
            THEN now = {<<"fails">>}
            ELSE IF result.op \in {"create", "update"} /\ result.err = "Ok"
                    /\ result.id = Some(id)
            THEN now = {<<"record", Listed(result.task[1])>>}
            ELSE IF result.op = "delete" /\ result.err = "Ok"
                    /\ result.id = Some(id)
            THEN now = {<<"fails">>}
            ELSE now = before

\* C6: a call that returns an error leaves the stored state as it was before
\* the call.
C6_AllOrNothing ==
    result.err # "Ok" =>
        (files = prev.files /\ dirExists = prev.dirExists)

\* C7: create on a location whose records directory does not exist fails with
\* NotInitialized, assigns no identifier, and creates neither the directory
\* nor any file.
C7_CreateNotInitialized ==
    (result.op = "create" /\ ~prev.dirExists) =>
        /\ result.err = "DirectoryNotInitialized"
        /\ result.id = None /\ result.task = None
        /\ ~dirExists
        /\ files = prev.files /\ DOMAIN files = {}

C7_Witness == result.op = "create" /\ ~prev.dirExists

C9_NotFoundLeavesDirectory ==
    (/\ result.op \in {"update", "delete"}
     /\ prev.dirExists
     /\ Carriers(prev.files, result.id[1]) = {}) =>
        (result.err = "TaskNotFound" /\ files = prev.files)

C9_Witness ==
    /\ result.op \in {"update", "delete"}
    /\ prev.dirExists
    /\ Carriers(prev.files, result.id[1]) = {}
    /\ DOMAIN prev.files # {}

\* C10: a successful delete(id) removes the file carrying id and leaves the
\* name and content of every other file unchanged; afterwards read(id) fails.
C10_DeleteFrame ==
    (result.op = "delete" /\ result.err = "Ok") =>
        /\ \E n \in Carriers(prev.files, result.id[1]) :
             /\ DOMAIN files = (DOMAIN prev.files) \ {n}
             /\ \A m \in DOMAIN files : files[m] = prev.files[m]
        /\ \A r \in ReadResults(dirExists, files, result.id[1]) :
             r.err # "Ok"

C10_Witness ==
    result.op = "delete" /\ result.err = "Ok" /\ DOMAIN files # {}

----------------------------------------------------------------------------
\* Listing, statistics and the identifier scan over any directory content

\* Most entries a directory of the listing model holds.
MaxFiles == 3

\* TaskFilter
MkFilter(kind, status, priority, tags, includeArchived) ==
    [kind |-> kind, status |-> status, priority |-> priority, tags |-> tags,
     include_archived |-> includeArchived]

\* TaskFilter::default
DefaultFilter == MkFilter(None, None, None, <<>>, FALSE)

\* The filters callers hand to list.
Filters ==
    { DefaultFilter,
      [DefaultFilter EXCEPT !.include_archived = TRUE],
      [DefaultFilter EXCEPT !.kind = Some("task")],
      [DefaultFilter EXCEPT !.status = Some("archived")],
      MkFilter(None, Some("archived"), None, <<>>, TRUE),
      [DefaultFilter EXCEPT !.status = Some("pending")],
      MkFilter(None, None, Some("high"), <<>>, TRUE),
      [DefaultFilter EXCEPT !.tags = <<"bug">>],
      MkFilter(None, None, None, <<"ui", "bug">>, TRUE),
      MkFilter(Some("idea"), None, None, <<"bug">>, TRUE),
      [DefaultFilter EXCEPT !.tags = <<"bug", "zz">>] }

SeqContains(seq, x) == \E i \in 1..Len(seq) : seq[i] = x

\* Mutant: one tag of the filter is enough.
MatchesAnyTag(filter, task) ==
    /\ filter.kind # None => task.kind = filter.kind[1]
    /\ filter.status # None => task.status = filter.status[1]
    /\ filter.priority # None => task.priority = filter.priority[1]
    /\ filter.tags # <<>> =>
         \E i \in 1..Len(filter.tags) : SeqContains(task.tags, filter.tags[i])
    /\ ~(~filter.include_archived /\ task.status = "archived")

\* Mutant: archived records are never excluded.
MatchesKeepArchived(filter, task) ==
    /\ filter.kind # None => task.kind = filter.kind[1]
    /\ filter.status # None => task.status = filter.status[1]
    /\ filter.priority # None => task.priority = filter.priority[1]
    /\ \A i \in 1..Len(filter.tags) : SeqContains(task.tags, filter.tags[i])

\* Mutant: asking for the status archived is taken as asking to include the
\* archived records.
MatchesArchivedByStatus(filter, task) ==
    /\ filter.kind # None => task.kind = filter.kind[1]
    /\ filter.status # None => task.status = filter.status[1]
    /\ filter.priority # None => task.priority = filter.priority[1]
    /\ \A i \in 1..Len(filter.tags) : SeqContains(task.tags, filter.tags[i])
    /\ ~(~filter.include_archived /\ task.status = "archived"
           /\ filter.status # Some("archived"))

\* TaskFilter::matches
Matches(filter, task) ==
    IF filter.kind # None /\ task.kind # filter.kind[1] THEN FALSE
    ELSE IF filter.status # None /\ task.status # filter.status[1] THEN FALSE
    ELSE IF filter.priority # None /\ task.priority # filter.priority[1]
    THEN FALSE
    ELSE IF filter.tags # <<>>
            /\ \E i \in 1..Len(filter.tags) :
                 ~SeqContains(task.tags, filter.tags[i])
    THEN FALSE
    ELSE IF ~filter.include_archived /\ task.status = "archived" THEN FALSE
    ELSE TRUE

\* std::fs::read_to_string: None for an entry that cannot be read.
ReadToString(content) ==
    IF "unreadable" \in DOMAIN content THEN None ELSE Some(content)

\* Mutant: a file that cannot be read or parsed ends the listing with an error.
ListEntryPropagates(fs, name, filter) ==
    IF ~IsMd(name) THEN [err |-> "Ok", task |-> None]
    ELSE LET text == ReadToString(fs[name]) IN
         IF text = None THEN [err |-> "Io", task |-> None]
         ELSE LET task == ParseTask(text[1]) IN
              IF task = None THEN [err |-> "Parse", task |-> None]
              ELSE [err |-> "Ok",
                    task |-> IF Matches(filter, task[1]) THEN task ELSE None]

\* One round of the loop of list: the record pushed for one entry of the
\* directory, if any. The entry is kept when it has the extension md, can be
\* read, parses, and matches the filter; a failed read or parse is logged and
\* the round ends without an error.
ListEntry(fs, name, filter) ==
    IF ~IsMd(name) THEN [err |-> "Ok", task |-> None]
    ELSE LET text == ReadToString(fs[name]) IN
         IF text = None THEN [err |-> "Ok", task |-> None]
         ELSE LET task == ParseTask(text[1]) IN
              IF task = None THEN [err |-> "Ok", task |-> None]
              ELSE [err |-> "Ok",
                    task |-> IF Matches(filter, task[1]) THEN task ELSE None]

\* The loop of list over the entries in the order given: the records pushed,
\* or the error that ended the loop.
RECURSIVE Collect(_, _, _)
Collect(fs, order, filter) ==
    IF order = <<>> THEN [err |-> "Ok", tasks |-> <<>>]
    ELSE LET entry == ListEntry(fs, order[1], filter) IN
         IF entry.err # "Ok" THEN [err |-> entry.err, tasks |-> <<>>]
         ELSE LET rest == Collect(fs, Tail(order), filter) IN
              IF rest.err # "Ok" THEN rest
              ELSE [err |-> "Ok", tasks |-> entry.task \o rest.tasks]

\* Where a stable sort by id puts t among the already sorted ts: after every
\* record whose id is not greater.
RECURSIVE InsertById(_, _)
InsertById(ts, t) ==
    IF ts = <<>> THEN <<t>>
    ELSE IF ts[Len(ts)].id <= t.id THEN Append(ts, t)
    ELSE Append(InsertById(SubSeq(ts, 1, Len(ts) - 1), t), ts[Len(ts)])

\* Mutant: the sort is left out.
SortByIdMissing(ts) == ts

\* tasks.sort_by_key(|t| t.id): a stable sort.
RECURSIVE SortById(_)
SortById(ts) ==
    IF ts = <<>> THEN <<>>
    ELSE InsertById(SortById(SubSeq(ts, 1, Len(ts) - 1)), ts[Len(ts)])

\* The orders in which read_dir may yield the entries of a directory.
RECURSIVE Orders(_)
Orders(names) ==
    IF names = {} THEN { <<>> }
    ELSE UNION { { <<n>> \o o : o \in Orders(names \ {n}) } : n \in names }

\* FileStore::list, the entries being visited in the order given. read_dir
\* fails on a directory that is not there.
ListTasks(ex, fs, order, filter) ==
    IF ~LocationExists(ex) THEN [err |-> "Ok", tasks |-> <<>>]
    ELSE IF ~ex THEN [err |-> "Io", tasks |-> <<>>]
    ELSE LET pushed == Collect(fs, order, filter) IN
         IF pushed.err # "Ok" THEN pushed
         ELSE [err |-> "Ok", tasks |-> SortById(pushed.tasks)]

\* What list(filter) may return in a directory state.
ListResults(ex, fs, filter) ==
    { ListTasks(ex, fs, o, filter) : o \in Orders(DOMAIN fs) }

\* Task::is_open
IsOpen(task) == task.status \in {"pending", "in-progress"}

\* TaskStats::default
ZeroStats ==
    [total |-> 0, pending |-> 0, in_progress |-> 0, completed |-> 0,
     archived |-> 0, overdue |-> 0, tasks |-> 0, todos |-> 0, ideas |-> 0]

\* Mutant: a record due today counts as overdue.
TallyDueToday(stats, task, today) ==
    LET s1 == IF task.status = "pending"
              THEN [stats EXCEPT !.pending = @ + 1]
              ELSE IF task.status = "in-progress"
              THEN [stats EXCEPT !.in_progress = @ + 1]
              ELSE IF task.status = "completed"
              THEN [stats EXCEPT !.completed = @ + 1]
              ELSE [stats EXCEPT !.archived = @ + 1]
        s2 == IF task.kind = "task" THEN [s1 EXCEPT !.tasks = @ + 1]
              ELSE IF task.kind = "todo" THEN [s1 EXCEPT !.todos = @ + 1]
              ELSE [s1 EXCEPT !.ideas = @ + 1]
    IN  IF IsOpen(task) /\ task.due # None /\ task.due[1] <= today
        THEN [s2 EXCEPT !.overdue = @ + 1]
        ELSE s2

\* One round of the loop of stats: the status count, the kind count and the
\* overdue count of one record.
Tally(stats, task, today) ==
    LET s1 == IF task.status = "pending"
              THEN [stats EXCEPT !.pending = @ + 1]
              ELSE IF task.status = "in-progress"
              THEN [stats EXCEPT !.in_progress = @ + 1]
              ELSE IF task.status = "completed"
              THEN [stats EXCEPT !.completed = @ + 1]
              ELSE [stats EXCEPT !.archived = @ + 1]
        s2 == IF task.kind = "task" THEN [s1 EXCEPT !.tasks = @ + 1]
              ELSE IF task.kind = "todo" THEN [s1 EXCEPT !.todos = @ + 1]
              ELSE [s1 EXCEPT !.ideas = @ + 1]
    IN  IF IsOpen(task) /\ task.due # None /\ task.due[1] < today
        THEN [s2 EXCEPT !.overdue = @ + 1]
        ELSE s2

RECURSIVE TallyAll(_, _, _)
TallyAll(stats, ts, today) ==
    IF ts = <<>> THEN stats
    ELSE TallyAll(Tally(stats, ts[1], today), Tail(ts), today)

\* FileStore::stats over the listing all_tasks; today is the current date
\* (chrono::Utc::now().date_naive()).
StatsOf(allTasks, today) ==
    TallyAll([ZeroStats EXCEPT !.total = Len(allTasks)], allTasks, today)

\* The dates stats may run on: before, on and after the due date of Drafts.
Dates == {4, 5, 6}

DraftTitled(title) == CHOOSE d \in Drafts : d.title = title

\* A record file as the store writes it.
StoredEntry(draft, id) ==
    LET task == [draft EXCEPT !.id = id] IN
    [name |-> Filename(task), content |-> SerializeTask(task)]

\* The entries the directories of the listing model are made of: four record
\* files (two of them carrying id 2), an .md file whose block lacks the title,
\* an .md file that cannot be read, a record file with another extension, an
\* .md file whose name has no hyphen, and one whose name ends in "+6".
Pool ==
    LET valid == SerializeTask([DraftTitled(<<"A">>) EXCEPT !.id = 9]) IN
    { StoredEntry(DraftTitled(<<"A">>), 1),
      StoredEntry(DraftTitled(<<"a", "!">>), 2),
      StoredEntry(DraftTitled(<<"B", " ", "1">>), 3),
      StoredEntry(DraftTitled(<<"!">>), 2),
      [name |-> <<"b", "-", "0", "0", "4", ".", "m", "d">>,
       content |-> [valid EXCEPT !.fm.title = None]],
      [name |-> <<"b", "-", "0", "0", "5", ".", "m", "d">>,
       content |-> [unreadable |-> TRUE]],
      [name |-> <<"a", "-", "0", "0", "9", ".", "t", "x", "t">>,
       content |-> valid],
      [name |-> <<"b", ".", "m", "d">>,
       content |-> SerializeTask([DraftTitled(<<"B", " ", "1">>)
                                    EXCEPT !.id = 7])],
      [name |-> <<"a", "-", "+", "6", ".", "m", "d">>,
       content |-> SerializeTask([DraftTitled(<<"A">>) EXCEPT !.id = 6])] }

PoolContent(name) == (CHOOSE e \in Pool : e.name = name).content

\* The directory states of the listing model.
Dirs ==
    { [n \in names |-> PoolContent(n)] :
        names \in { S \in SUBSET { e.name : e \in Pool } :
                      Cardinality(S) <= MaxFiles } }

\* A call that changes nothing on disk and returns res.
Returns(res) ==
    /\ result' = res
    /\ UNCHANGED <<dirExists, files, prev, createLog, onlyCreates, projects,
                   registryFile, disk, procs>>

InitList ==
    /\ dirExists \in BOOLEAN
    /\ files \in Dirs
    /\ ~dirExists => files = EmptyDir
    /\ result = Result("none", "Ok", None, None)
    /\ prev = [dirExists |-> dirExists, files |-> files]
    /\ createLog = <<>>
    /\ onlyCreates = TRUE
    /\ NoRegistry
    /\ NoProcesses

\* FileStore::list
List(filter) ==
    \E listed \in ListResults(dirExists, files, filter) :
        Returns([op |-> "list", err |-> listed.err, filter |-> filter,
                 tasks |-> listed.tasks])

\* FileStore::stats
Stats(today) ==
    \E listed \in ListResults(dirExists, files,
                              [DefaultFilter EXCEPT !.include_archived = TRUE]) :
        Returns([op |-> "stats", err |-> listed.err, today |-> today,
                 stats |-> IF listed.err # "Ok" THEN ZeroStats
                           ELSE StatsOf(listed.tasks, today)])

\* IdGenerator::next_id
NextIdCall ==
    /\ result.op # "next_id"
    /\ Returns([op |-> "next_id", err |-> "Ok",
                id |-> NextId(dirExists, files)])

NextList ==
    \/ \E filter \in Filters : List(filter)
    \/ \E today \in Dates : Stats(today)
    \/ NextIdCall

SpecList == InitList /\ [][NextList]_vars

----------------------------------------------------------------------------
\* Properties of list, stats and next_id

\* The .md entries of a directory that can be read and hold a record.
ParseableMd(fs) ==
    { n \in DOMAIN fs :
        IsMd(n) /\ "unreadable" \notin DOMAIN fs[n] /\ ParseTask(fs[n]) # None }

\* The .md entries of a directory that cannot be read or hold no record.
BadMd(fs) == { n \in DOMAIN fs : IsMd(n) } \ ParseableMd(fs)

RecordIn(fs, n) == ParseTask(fs[n])[1]

Range(seq) == { seq[i] : i \in 1..Len(seq) }

\* What a filter asks of a record, stated field by field.
Satisfies(filter, t) ==
    /\ filter.kind \in {None, Some(t.kind)}
    /\ filter.status \in {None, Some(t.status)}
    /\ filter.priority \in {None, Some(t.priority)}
    /\ Range(filter.tags) \subseteq Range(t.tags)
    /\ t.status = "archived" => filter.include_archived

\* C11: list on a location whose records directory is absent returns an empty
\* sequence and no error, for every filter.
C11_ListAbsentDirectory ==
    (result.op = "list" /\ ~dirExists) =>
        /\ result.err = "Ok"
        /\ result.tasks = <<>>

C11_Witness ==
    /\ result.op = "list"
    /\ ~dirExists
    /\ result.filter = MkFilter(Some("idea"), None, None, <<"bug">>, TRUE)
    /\ result.err = "Ok"

\* C12: list(filter) returns exactly the records stored in the parseable .md
\* files of the directory that satisfy the filter, each exactly once (the
\* positions of the result and those files correspond one to one), ordered by
\* ascending identifier.
C12_ListExactlySorted ==
    result.op = "list" =>
        LET tasks == result.tasks
            sources == { n \in ParseableMd(files) :
                           Satisfies(result.filter, RecordIn(files, n)) }
        IN  /\ result.err = "Ok"
            /\ \E f \in [1..Len(tasks) -> sources] :
                 /\ \A i, j \in 1..Len(tasks) : f[i] = f[j] => i = j
                 /\ \A n \in sources : \E i \in 1..Len(tasks) : f[i] = n
                 /\ \A i \in 1..Len(tasks) : tasks[i] = RecordIn(files, f[i])
            /\ \A i, j \in 1..Len(tasks) :
                 i < j => tasks[i].id <= tasks[j].id

C12_Witness ==
    /\ result.op = "list"
    /\ result.filter = [DefaultFilter EXCEPT !.tags = <<"bug">>]
    /\ Len(result.tasks) = 1
    /\ Cardinality(ParseableMd(files)) = 3
    /\ \E n \in ParseableMd(files) : RecordIn(files, n).id > result.tasks[1].id

\* C13: during list, a file that cannot be read or parsed is skipped: the call
\* succeeds and returns every matching record of the other files, exactly
\* what it returns when the bad files are not there.
C13_BadFileSkipped ==
    (result.op = "list" /\ BadMd(files) # {}) =>
        LET others == [n \in DOMAIN files \ BadMd(files) |-> files[n]] IN
        /\ result.err = "Ok"
        /\ \A n \in ParseableMd(files) :
             Satisfies(result.filter, RecordIn(files, n)) =>
                 RecordIn(files, n) \in Range(result.tasks)
        /\ \E listed \in ListResults(dirExists, others, result.filter) :
             /\ listed.err = "Ok"
             /\ listed.tasks = result.tasks

C13_Witness ==
    /\ result.op = "list"
    /\ \E n \in BadMd(files) : "unreadable" \in DOMAIN files[n]
    /\ \E n \in BadMd(files) : "unreadable" \notin DOMAIN files[n]
    /\ result.err = "Ok"
    /\ Len(result.tasks) = 1

\* C14: list with a non-empty tag filter T returns exactly the records, among
\* those the filter without T returns, whose tags contain every tag of T.
C14_TagFilter ==
    (result.op = "list" /\ result.filter.tags # <<>>) =>
        \A listed \in ListResults(dirExists, files,
                                  [result.filter EXCEPT !.tags = <<>>]) :
            Range(result.tasks) =
                { t \in Range(listed.tasks) :
                    \A tag \in Range(result.filter.tags) :
                        tag \in Range(t.tags) }

\* A record carrying one of the two tags asked for stays out, one carrying
\* both is returned.
C14_Witness ==
    /\ result.op = "list"
    /\ result.filter.tags = <<"ui", "bug">>
    /\ \E n \in ParseableMd(files) :
         /\ "bug" \in Range(RecordIn(files, n).tags)
         /\ "ui" \notin Range(RecordIn(files, n).tags)
         /\ RecordIn(files, n) \notin Range(result.tasks)
    /\ \E t \in Range(result.tasks) : t.tags = <<"bug", "ui">>

\* C15: a record with status archived is absent from list(default filter) and
\* present in list(include_archived = true); for every filter, the records of
\* any other status returned are the same with and without include_archived.
C15_ArchivedExclusion ==
    result.op = "list" =>
        LET archived == { RecordIn(files, n) :
                            n \in { m \in ParseableMd(files) :
                                      RecordIn(files, m).status = "archived" } }
            open(ts) == { t \in Range(ts) : t.status # "archived" }
            flipped == [result.filter EXCEPT !.include_archived = ~@]
        IN  /\ result.filter = DefaultFilter =>
                 archived \cap Range(result.tasks) = {}
            /\ result.filter = [DefaultFilter EXCEPT !.include_archived = TRUE]
                 => archived \subseteq Range(result.tasks)
            /\ \A listed \in ListResults(dirExists, files, flipped) :
                 open(listed.tasks) = open(result.tasks)

C15_Witness ==
    /\ result.op = "list"
    /\ result.filter = DefaultFilter
    /\ \E n \in ParseableMd(files) : RecordIn(files, n).status = "archived"
    /\ Len(result.tasks) = 2

\* The number of records of a listing with a property.
CountOf(ts, P(_)) == Cardinality({ i \in 1..Len(ts) : P(ts[i]) })

\* C16: stats() equals the tallies of list(include_archived = true): total is
\* the number of records, the per-status and the per-kind counts are the
\* numbers of records of that status and kind and each family sums to total,
\* and overdue is the number of pending or in-progress records whose due date
\* is strictly before the current date.
C16_StatsTallies ==
    result.op = "stats" =>
        \A listed \in ListResults(dirExists, files,
                                  MkFilter(None, None, None, <<>>, TRUE)) :
            LET ts == listed.tasks
                st == result.stats
            IN  /\ result.err = "Ok"
                /\ st.total = Len(ts)
                /\ st.pending = CountOf(ts, LAMBDA t : t.status = "pending")
                /\ st.in_progress =
                       CountOf(ts, LAMBDA t : t.status = "in-progress")
                /\ st.completed = CountOf(ts, LAMBDA t : t.status = "completed")
                /\ st.archived = CountOf(ts, LAMBDA t : t.status = "archived")
                /\ st.tasks = CountOf(ts, LAMBDA t : t.kind = "task")
                /\ st.todos = CountOf(ts, LAMBDA t : t.kind = "todo")
                /\ st.ideas = CountOf(ts, LAMBDA t : t.kind = "idea")
                /\ st.pending + st.in_progress + st.completed + st.archived
                       = st.total
                /\ st.tasks + st.todos + st.ideas = st.total
                /\ st.overdue =
                       CountOf(ts, LAMBDA t :
                                 /\ t.status \in {"pending", "in-progress"}
                                 /\ t.due # None
                                 /\ t.due[1] < result.today)

\* An in-progress record due on day 5 is counted as overdue on day 6, next to
\* a completed record due the same day and an archived one, which are not.
C16_Witness ==
    /\ result.op = "stats"
    /\ result.today = 6
    /\ result.stats.total = 3
    /\ result.stats.overdue = 1
    /\ result.stats.completed = 1
    /\ result.stats.archived = 1

\* C17: next_id(dir) returns 1 plus the maximum identifier decoded from the
\* entries of dir whose extension is .md, the maximum being 0 when dir does
\* not exist or holds no decodable .md entry; the other entries do not
\* influence the result.
C17_NextIdScan ==
    result.op = "next_id" =>
        LET decodable == { n \in DOMAIN files :
                             IsMd(n) /\ ExtractIdFromFilename(n) # None }
            idOf(n) == ExtractIdFromFilename(n)[1]
        IN  /\ \A n \in decodable : idOf(n) < result.id
            /\ \/ \E n \in decodable : result.id = idOf(n) + 1
               \/ result.id = 1 /\ (decodable = {} \/ ~dirExists)
            /\ result.id = NextId(dirExists, [n \in decodable |-> files[n]])

\* A .txt entry named with id 9 and an .md entry without a hyphen lie next to
\* the record file of id 1: the next id is 2.
C17_Witness ==
    /\ result.op = "next_id"
    /\ result.id = 2
    /\ \E n \in DOMAIN files : ~IsMd(n) /\ ExtractIdFromFilename(n) = Some(9)
    /\ \E n \in DOMAIN files : IsMd(n) /\ ExtractIdFromFilename(n) = None

----------------------------------------------------------------------------
\* The file name scheme and the record codec as functions

\* The identifiers encode is applied to: one, two, three and four digits.
EncodeIds == {0, 1, 9, 10, 12, 99, 100, 123, 999, 1000, 1234}

\* The names decode is applied to, next to the names encode produces.
DecodeNames ==
    { <<"a", "-", "0", "0", "1", ".", "m", "d">>,
      <<"-", "0", "0", "2", ".", "m", "d">>,
      <<"a", "-", "b", "-", "0", "4", "2", ".", "m", "d">>,
      <<"a", "-", "1", "2", "3", "4", ".", "m", "d">>,
      <<"a", "-", "0", ".", "m", "d">>,
      <<"a", "-", "-", "7", ".", "m", "d">>,
      <<"a", "-", "9", ".", "t", "x", "t">>,
      <<"a", "-", "5">>,
      <<"b", ".", "m", "d">>,
      <<"1", "2", ".", "m", "d">>,
      <<"a", "-", ".", "m", "d">>,
      <<"a", "-", "1", "-", ".", "m", "d">>,
      <<"a", "-", "b", ".", "m", "d">>,
      <<"a", "-", "x", "1", ".", "m", "d">>,
      <<"a", "-", "1", "x", ".", "m", "d">>,
      <<"a", "-", " ", "1", ".", "m", "d">>,
      <<"a", "-", "1", ".", "t", "a", "r", ".", "m", "d">>,
      <<"a", "-", "+", "6", ".", "m", "d">>,
      <<"a", "-", "+", ".", "m", "d">>,
      <<"a", "-", "+", "+", "1", ".", "m", "d">> }

\* The descriptions of the records put through the codec: empty, one line,
\* two lines, and with whitespace at either end.
Descriptions ==
    { <<>>, <<"x">>, <<"x", "\n", "y">>, <<" ", "x">>, <<"x", "\n">>, <<" ">> }

\* The records encode and the codec are applied to.
CodecTasks ==
    { [d EXCEPT !.id = i, !.description = desc] :
        d \in Drafts, i \in EncodeIds, desc \in Descriptions }

\* The argument of the first call: a record or a file name.
InitCodec ==
    /\ dirExists = FALSE
    /\ files = EmptyDir
    /\ result \in { [op |-> "record", err |-> "Ok", task |-> t] :
                      t \in CodecTasks }
                  \cup { [op |-> "name", err |-> "Ok", name |-> n] :
                           n \in DecodeNames }
    /\ prev = [dirExists |-> dirExists, files |-> files]
    /\ createLog = <<>>
    /\ onlyCreates = TRUE
    /\ NoRegistry
    /\ NoProcesses

\* Task::filename
Encode ==
    /\ result.op = "record"
    /\ Returns([op |-> "filename", err |-> "Ok", task |-> result.task,
                name |-> Filename(result.task)])

\* IdGenerator::extract_id_from_filename, applied to a given name or to the
\* name Task::filename gave.
Decode ==
    /\ result.op \in {"name", "filename"}
    /\ Returns([op |-> "extract_id", err |-> "Ok", name |-> result.name,
                task |-> IF result.op = "filename" THEN Some(result.task)
                         ELSE None,
                id |-> ExtractIdFromFilename(result.name)])

\* serialize_task
Serialize ==
    /\ result.op = "record"
    /\ Returns([op |-> "serialize_task", err |-> "Ok", task |-> result.task,
                content |-> SerializeTask(result.task)])

\* parse_task, applied to the text serialize_task gave.
Parse ==
    /\ result.op = "serialize_task"
    /\ LET parsed == ParseTask(result.content) IN
       Returns([op |-> "parse_task",
                err |-> IF parsed = None THEN "Parse" ELSE "Ok",
                task |-> result.task, content |-> result.content,
                parsed |-> parsed])

NextCodec ==
    \/ Encode
    \/ Decode
    \/ Serialize
    \/ Parse

SpecCodec == InitCodec /\ [][NextCodec]_vars

\* C18: decode(filename) returns the unsigned integer parsed from the text
\* after the last hyphen of the filename stem, and returns none when the stem
\* contains no hyphen or that text is not a valid unsigned decimal integer (a
\* non-empty run of decimal digits).
C18_DecodeDecimalSuffix ==
    result.op = "extract_id" =>
        LET stem == FileStem(result.name)
            hyphens == { i \in 1..Len(stem) : stem[i] = "-" }
            last == CHOOSE i \in hyphens : \A j \in hyphens : j <= i
            suffix == SubSeq(stem, last + 1, Len(stem))
        IN  IF hyphens = {} THEN result.id = None
            ELSE IF suffix # <<>> /\ \A i \in 1..Len(suffix) : IsDigit(suffix[i])
            THEN result.id = Some(DigitsValue(suffix))
            ELSE result.id = None

\* The widths of an identifier written in decimal, for the identifiers of
\* EncodeIds.
NaturalWidth(id) ==
    IF id < 10 THEN 1 ELSE IF id < 100 THEN 2 ELSE IF id < 1000 THEN 3 ELSE 4

\* C19: encode(record) is '{slug of the title}-{id}.md', the identifier being
\* written in decimal, left-padded with zeros to three digits when it has
\* fewer than three digits and at its natural width otherwise: id 1 gives
\* '-001.md', id 123 gives '-123.md', id 1234 gives '-1234.md'.
C19_EncodePadding ==
    result.op = "filename" =>
        LET slug == Slug(result.task)
            name == result.name
            id == result.task.id
            width == IF NaturalWidth(id) < 3 THEN 3 ELSE NaturalWidth(id)
            digits == SubSeq(name, Len(slug) + 2, Len(slug) + 1 + width)
        IN  /\ Len(name) = Len(slug) + 1 + width + 3
            /\ SubSeq(name, 1, Len(slug)) = slug
            /\ name[Len(slug) + 1] = "-"
            /\ \A i \in 1..width : IsDigit(digits[i])
            /\ DigitsValue(digits) = id
            /\ SubSeq(name, Len(name) - 2, Len(name)) = <<".", "m", "d">>
            /\ id = 1 => digits = <<"0", "0", "1">>
            /\ id = 123 => digits = <<"1", "2", "3">>
            /\ id = 1234 => digits = <<"1", "2", "3", "4">>

C19_Witness ==
    /\ result.op = "filename"
    /\ result.task.id = 12
    /\ result.task.title = <<"B", " ", "1">>
    /\ result.name = <<"b", "-", "1", "-", "0", "1", "2", ".", "m", "d">>

\* C20 as stated: deserialize(serialize(r)) reproduces every field of r
\* exactly, the description text included.
C20_RoundTripExact ==
    result.op = "parse_task" => result.parsed = Some(result.task)

\* C20, amended: deserialize(serialize(r)) succeeds and reproduces every field
\* of r exactly, empty and non-empty tags and absent and present due date and
\* closed-commit included, except the description, which comes back without
\* its leading and trailing whitespace.
C20_RoundTripTrimmed ==
    result.op = "parse_task" =>
        /\ result.parsed # None
        /\ LET r == result.task
               p == result.parsed[1]
               blank(s) == \A i \in 1..Len(s) : IsWhitespace(s[i])
           IN  /\ [p EXCEPT !.description = <<>>]
                     = [r EXCEPT !.description = <<>>]
               /\ \E i \in 0..Len(r.description) :
                    /\ blank(SubSeq(r.description, 1, i))
                    /\ i + Len(p.description) <= Len(r.description)
                    /\ p.description
                         = SubSeq(r.description, i + 1, i + Len(p.description))
                    /\ blank(SubSeq(r.description, i + Len(p.description) + 1,
                                    Len(r.description)))
               /\ p.description # <<>> =>
                    /\ ~IsWhitespace(p.description[1])
                    /\ ~IsWhitespace(p.description[Len(p.description)])

\* A record with tags, without due date and closed-commit, whose description
\* begins with a blank, comes back with the description "x".
C20_Witness ==
    /\ result.op = "parse_task"
    /\ result.task.description = <<" ", "x">>
    /\ result.task.tags = <<"bug", "ui">>
    /\ result.task.due = None
    /\ result.parsed # None
    /\ result.parsed[1].description = <<"x">>
    /\ result.parsed[1].tags = <<"bug", "ui">>
    /\ result.parsed[1].due = None

----------------------------------------------------------------------------
\* The record codec on text: split_frontmatter and parse_task

\* Longest text, in lines, given to parse_task in the model.
MaxLines == 5

\* FRONTMATTER_DELIMITER
FrontmatterDelimiter == <<"-", "-", "-">>

\* str::starts_with
StartsWith(s, p) == Len(s) >= Len(p) /\ SubSeq(s, 1, Len(p)) = p

\* str::find: the index of the first occurrence of p in s, 0 when there is
\* none.
Find(s, p) ==
    LET hits == { i \in 1..(Len(s) - Len(p) + 1) :
                    SubSeq(s, i, i + Len(p) - 1) = p }
    IN  IF hits = {} THEN 0 ELSE CHOOSE i \in hits : \A j \in hits : i <= j

\* str::trim_start_matches(c)
RECURSIVE TrimStartMatches(_, _)
TrimStartMatches(s, c) ==
    IF s # <<>> /\ s[1] = c THEN TrimStartMatches(Tail(s), c) ELSE s

\* split_frontmatter: the trimmed text must start with the delimiter; the
\* block runs to the first newline followed by the delimiter; the body is what
\* follows that delimiter.
SplitFrontmatter(text) ==
    LET content == Trim(text) IN
    IF ~StartsWith(content, FrontmatterDelimiter)
    THEN [err |-> "MissingDelimiters", frontmatter |-> <<>>, body |-> <<>>]
    ELSE LET afterFirst ==
                 TrimStartMatches(
                     SubSeq(content, Len(FrontmatterDelimiter) + 1,
                            Len(content)),
                     "\n")
             endPos == Find(afterFirst, <<"\n">> \o FrontmatterDelimiter)
             bodyStart == endPos + 1 + Len(FrontmatterDelimiter)
         IN  IF endPos = 0
             THEN [err |-> "MissingDelimiters", frontmatter |-> <<>>,
                   body |-> <<>>]
             ELSE [err |-> "Ok",
                   frontmatter |-> SubSeq(afterFirst, 1, endPos - 1),
                   body |-> IF bodyStart <= Len(afterFirst)
                            THEN SubSeq(afterFirst, bodyStart, Len(afterFirst))
                            ELSE <<>>]

\* The lines of a text (str::lines without the final-newline rule: a text
\* that ends in a newline has an empty last line).
RECURSIVE LinesOf(_)
LinesOf(s) ==
    LET nl == Find(s, <<"\n">>) IN
    IF nl = 0 THEN <<s>>
    ELSE <<SubSeq(s, 1, nl - 1)>> \o LinesOf(SubSeq(s, nl + 1, Len(s)))

\* The lines joined by newlines.
RECURSIVE JoinLines(_)
JoinLines(ls) ==
    IF ls = <<>> THEN <<>>
    ELSE IF Len(ls) = 1 THEN ls[1]
    ELSE ls[1] \o <<"\n">> \o JoinLines(Tail(ls))

\* serde_yaml::from_str::<Task> on a block.  The character "k" stands for the
\* key: value lines of a complete block (id, title, created, updated); the
\* block parses when its non-blank lines are those lines and nothing else.
YamlFromStr(block) ==
    LET ls == LinesOf(block)
        filled == { i \in 1..Len(ls) : Trim(ls[i]) # <<>> }
    IN  IF Cardinality(filled) = 1 /\ \A i \in filled : ls[i] = <<"k">>
        THEN Some(block)
        ELSE None

\* parse_task on a text: the error, or the block the record was read from
\* and the description.
ParseTaskText(text) ==
    LET split == SplitFrontmatter(text) IN
    IF split.err # "Ok"
    THEN [err |-> split.err, block |-> <<>>, description |-> <<>>]
    ELSE IF YamlFromStr(split.frontmatter) = None
    THEN [err |-> "YamlParse", block |-> <<>>, description |-> <<>>]
    ELSE [err |-> "Ok", block |-> split.frontmatter,
          description |-> Trim(split.body)]

\* The lines the texts are made of: the delimiter, a line that begins with
\* it, the key: value lines, a line of free text, a blank line.
TextLines ==
    { FrontmatterDelimiter, FrontmatterDelimiter \o <<"x">>, <<"k">>, <<"x">>,
      <<>> }

\* The texts of n lines.
RECURSIVE TextsOf(_)
TextsOf(n) ==
    IF n = 1 THEN TextLines
    ELSE { t \o <<"\n">> \o l : t \in TextsOf(n - 1), l \in TextLines }

Texts == UNION { TextsOf(n) : n \in 1..MaxLines }

InitText ==
    /\ dirExists = FALSE
    /\ files = EmptyDir
    /\ result \in { [op |-> "text", err |-> "Ok", text |-> t] : t \in Texts }
    /\ prev = [dirExists |-> dirExists, files |-> files]
    /\ createLog = <<>>
    /\ onlyCreates = TRUE
    /\ NoRegistry
    /\ NoProcesses

\* split_frontmatter
Split ==
    /\ result.op = "text"
    /\ LET split == SplitFrontmatter(result.text) IN
       Returns([op |-> "split_frontmatter", err |-> split.err,
                text |-> result.text, frontmatter |-> split.frontmatter,
                body |-> split.body])

\* parse_task
ParseText ==
    /\ result.op = "text"
    /\ LET parsed == ParseTaskText(result.text) IN
       Returns([op |-> "parse_task", err |-> parsed.err, text |-> result.text,
                block |-> parsed.block, description |-> parsed.description])

NextText ==
    \/ Split
    \/ ParseText

SpecText == InitText /\ [][NextText]_vars

\* C21: deserialize fails with MalformedRecord when the text does not start
\* with the opening delimiter or has no later line equal to the closing
\* delimiter; when it succeeds, the metadata block ends at the first
\* subsequent line that is exactly the delimiter (the block is compared up to
\* surrounding blank lines) and the description is the trimmed remainder.
C21_Delimiters ==
    (result.op = "parse_task" /\ "text" \in DOMAIN result) =>
        LET ls == LinesOf(result.text)
            closers == { i \in 2..Len(ls) : ls[i] = FrontmatterDelimiter }
            close == CHOOSE i \in closers : \A j \in closers : i <= j
        IN  /\ (~StartsWith(result.text, FrontmatterDelimiter) \/ closers = {})
                 => result.err \in {"MissingDelimiters", "YamlParse"}
            /\ result.err = "Ok" =>
                 /\ Trim(result.block)
                      = Trim(JoinLines(SubSeq(ls, 2, close - 1)))
                 /\ result.description
                      = Trim(JoinLines(SubSeq(ls, close + 1, Len(ls))))

----------------------------------------------------------------------------
\* The project registry

\* Paths callers hand to link and unlink: a relative path (the working
\* directory being the root) and a path whose last character is a blank.
\* ProjectPath is the canonical form of the first.
ProjectPath == <<"/", "a">>

RelativePath == <<"a">>

BlankEndPath == <<"/", "b", " ">>

CallerPaths == {RelativePath, BlankEndPath}

\* What the disk holds at a path: the canonical form of the path, whether the
\* directory holds the version-control marker, and its records directory
\* (None when it has none).
DiskEntry(canonical, git, tasks) ==
    [canonical |-> canonical, git |-> git, tasks |-> tasks]

\* Path::exists
PathExists(d, path) == path \in DOMAIN d

\* Path::canonicalize, for a path that exists.
Canonicalize(d, path) == d[path].canonical

\* The disk with the directory /a, which both ProjectPath and RelativePath
\* name, and the disk without it.
DiskWithProject ==
    [path \in {ProjectPath, RelativePath} |->
        DiskEntry(ProjectPath, TRUE, None)]

DiskWithoutProject == <<>>

\* ProjectRegistry::save: one line per registered path, in the order the set
\* is iterated, each followed by a newline.
RECURSIVE SaveText(_)
SaveText(order) ==
    IF order = <<>> THEN <<>>
    ELSE order[1] \o <<"\n">> \o SaveText(Tail(order))

\* ProjectRegistry::load_from: the trimmed non-blank lines of the file, the
\* empty set when there is no file.
LoadFrom(file) ==
    IF file = None THEN {}
    ELSE LET ls == LinesOf(file[1]) IN
         { Trim(ls[i]) : i \in { j \in 1..Len(ls) : Trim(ls[j]) # <<>> } }

\* The calls remembered in result.history: the two before the last.
Remember(res) ==
    IF "history" \in DOMAIN res
    THEN <<[op |-> res.op, path |-> res.path, ret |-> res.ret]>>
         \o (IF res.history = <<>> THEN <<>> ELSE <<res.history[1]>>)
    ELSE <<>>

\* A registry call: the set it leaves in memory, the file it leaves, and what
\* it returned.  wrote tells whether save was called, before is the set in
\* memory when the call began.
RegistryStep(op, path, ret, wrote, ps, file) ==
    /\ projects' = ps
    /\ registryFile' = file
    /\ result' = [op |-> op, err |-> IF ret = "Io" THEN "Io" ELSE "Ok",
                  path |-> path, ret |-> ret, wrote |-> wrote,
                  before |-> projects, history |-> Remember(result)]
    /\ UNCHANGED <<dirExists, files, prev, createLog, onlyCreates, disk,
                   procs>>

\* What happens to the set and the file in a call that changed the set to ps:
\* save writes the file, or fails and leaves it as it was.
Persist(op, path, ps) ==
    \E order \in Orders(ps), wrOk \in BOOLEAN :
        RegistryStep(op, path, IF wrOk THEN "true" ELSE "Io", TRUE, ps,
                     IF wrOk THEN Some(SaveText(order)) ELSE registryFile)

InitRegistry ==
    /\ dirExists = FALSE
    /\ files = EmptyDir
    /\ result = Result("none", "Ok", None, None)
    /\ prev = [dirExists |-> dirExists, files |-> files]
    /\ createLog = <<>>
    /\ onlyCreates = TRUE
    /\ projects = {}
    /\ registryFile = None
    /\ disk \in {DiskWithProject, DiskWithoutProject}
    /\ NoProcesses

\* ProjectRegistry::link
Link(path) ==
    LET canonical == IF PathExists(disk, path)
                     THEN Canonicalize(disk, path)
                     ELSE path
        inserted == canonical \notin projects
    IN  IF inserted
        THEN Persist("link", path, projects \cup {canonical})
        ELSE RegistryStep("link", path, "false", FALSE, projects, registryFile)

\* ProjectRegistry::unlink
Unlink(path) ==
    LET verbatim == path \in projects
        canonical == PathExists(disk, path)
                       /\ Canonicalize(disk, path) \in projects
    IN  IF verbatim
        THEN Persist("unlink", path, projects \ {path})
        ELSE IF canonical
        THEN Persist("unlink", path, projects \ {Canonicalize(disk, path)})
        ELSE RegistryStep("unlink", path, "false", FALSE, projects,
                          registryFile)

\* ProjectRegistry::load_from in a new process.
LoadRegistry ==
    /\ result.op # "load"
    /\ RegistryStep("load", <<>>, "loaded", FALSE, LoadFrom(registryFile),
                    registryFile)

\* The directory /a is created, or removed, by someone else.
DiskChange ==
    /\ disk' = IF disk = DiskWithProject THEN DiskWithoutProject
               ELSE DiskWithProject
    /\ result' = [op |-> "disk", err |-> "Ok", path |-> <<>>, ret |-> "none",
                  wrote |-> FALSE, before |-> projects,
                  history |-> Remember(result)]
    /\ UNCHANGED <<dirExists, files, prev, createLog, onlyCreates, projects,
                   registryFile, procs>>

NextRegistry ==
    \/ \E path \in CallerPaths : Link(path)
    \/ \E path \in CallerPaths : Unlink(path)
    \/ LoadRegistry
    \/ DiskChange

SpecRegistry == InitRegistry /\ [][NextRegistry]_vars

\* The forms under which a path may be registered: the path as given and,
\* when it exists, its canonical form.
FormsOf(d, path) ==
    {path} \cup (IF PathExists(d, path) THEN {Canonicalize(d, path)} ELSE {})

\* The call before the last was op(path).
Preceded(n, op, path) ==
    /\ "history" \in DOMAIN result
    /\ Len(result.history) >= n
    /\ result.history[n].op = op
    /\ result.history[n].path = path

\* C22: for every path p, two successive link(p) calls return true and then
\* false; the second call leaves the registered set unchanged and does not
\* write the registry file, and the set holds exactly one entry for p.
C22_LinkTwice ==
    (/\ result.op = "link"
     /\ Preceded(1, "link", result.path)
     /\ result.history[1].ret = "true") =>
        /\ result.ret = "false"
        /\ ~result.wrote
        /\ projects = result.before
        /\ Cardinality(projects \cap FormsOf(disk, result.path)) = 1

\* C23: for every path p, after link(p) has been called, unlink(p) returns
\* true (unless the file cannot be written) and removes the entry registered
\* for p, and a following unlink(p) returns false and writes nothing.
C23_UnlinkAfterLink ==
    /\ (/\ result.op = "unlink"
        /\ Preceded(1, "link", result.path)
        /\ result.history[1].ret # "Io"
        /\ result.ret # "Io") =>
           /\ result.ret = "true"
           /\ projects \cap FormsOf(disk, result.path) = {}
    /\ (/\ result.op = "unlink"
        /\ Preceded(1, "unlink", result.path)
        /\ result.history[1].ret = "true"
        /\ Preceded(2, "link", result.path)) =>
           /\ result.ret = "false"
           /\ ~result.wrote

\* C24: after every link or unlink call, and so after every one that returns
\* true, the registry file holds exactly the in-memory set: load from the
\* same path yields the same set of paths.
C24_FileHoldsSet ==
    result.op \in {"link", "unlink"} => LoadFrom(registryFile) = projects

----------------------------------------------------------------------------
\* Locations, project lookup and the listing over all registered projects

RootPath == <<"/">>

\* Path::join with a single name.
JoinPath(path, name) ==
    IF path = RootPath \/ path = <<>> THEN path \o name
    ELSE path \o <<"/">> \o name

\* Path::file_name: the last component, None for the root and for the empty
\* path.
FileName(path) ==
    IF path = RootPath \/ path = <<>> THEN None
    ELSE Some(SubSeq(path, RFind(path, "/") + 1, Len(path)))

\* PathBuf::pop: the path without its last component, None when there is
\* none to take (pop returns false): at the root, and at the empty path a
\* relative path ends in.
Pop(path) ==
    IF path = RootPath \/ path = <<>> THEN None
    ELSE IF RFind(path, "/") = 0 THEN Some(<<>>)
    ELSE IF RFind(path, "/") = 1 THEN Some(RootPath)
    ELSE Some(SubSeq(path, 1, RFind(path, "/") - 1))

\* current.join(".git").exists()
HasGit(d, path) == PathExists(d, path) /\ d[path].git

\* TASKS_DIR
TasksDirName == <<".", "t", "a", "s", "k", "s">>

\* TaskLocation for a project root.
ProjectLocation(root) ==
    [root |-> root, tasks_dir |-> JoinPath(root, TasksDirName),
     is_global |-> FALSE]

NoLocation == [root |-> <<>>, tasks_dir |-> <<>>, is_global |-> FALSE]

\* TaskLocation::find_project_from: the loop, current being the directory
\* looked at.
RECURSIVE FindProjectFrom(_, _)
FindProjectFrom(d, current) ==
    IF HasGit(d, current)
    THEN [err |-> "Ok", location |-> ProjectLocation(current)]
    ELSE IF Pop(current) = None
    THEN [err |-> "NotInGitRepo", location |-> NoLocation]
    ELSE FindProjectFrom(d, Pop(current)[1])

\* The directories of the disks of the model: two repositories /ab and /abb
\* whose names share a prefix, a directory /r with a subdirectory /r/b, and
\* a directory /u.
AbPath == <<"/", "a", "b">>

AbbPath == <<"/", "a", "b", "b">>

RPath == <<"/", "r">>

RbPath == <<"/", "r", "/", "b">>

UPath == <<"/", "u">>

\* A path that is not on disk.
MissingPath == <<"/", "n">>

\* A second path that is not on disk; its name is that of /ab in capitals.
UAbPath == <<"/", "u", "/", "A", "B">>

\* The working directory of the process is /r/b: the empty path names it,
\* and SPath its subdirectory /r/b/s.
CurrentDir == <<>>

SPath == <<"s">>

\* A records directory: whether read_dir can read it, and its entries.
TasksDir(readable, fs) == Some([readable |-> readable, files |-> fs])

\* The entries of a records directory holding the given drafts under the ids
\* 1, 2, ...
TasksOf(titles) ==
    LET entry(i) == StoredEntry(DraftTitled(titles[i]), i)
        names == { entry(i).name : i \in 1..Len(titles) }
    IN  [n \in names |->
            (CHOOSE e \in { entry(i) : i \in 1..Len(titles) } :
                e.name = n).content]

\* The disk in which exactly the directories of gits, among /, /r and /r/b,
\* hold the version-control marker.  /ab and /abb always hold it, /u and
\* /r/b/s never.
DiskWith(gits) ==
    LET rb == TasksDir(TRUE, TasksOf(<<<<"!">>>>)) IN
    [path \in {RootPath, AbPath, AbbPath, RPath, RbPath, UPath, CurrentDir,
               SPath} |->
        IF path = RootPath THEN DiskEntry(path, path \in gits, None)
        ELSE IF path = AbPath
        THEN DiskEntry(path, TRUE,
                       TasksDir(TRUE, TasksOf(<<<<"A">>, <<"a", "!">>>>)))
        ELSE IF path = AbbPath
        THEN DiskEntry(path, TRUE, TasksDir(FALSE, EmptyDir))
        ELSE IF path = RPath
        THEN DiskEntry(path, path \in gits,
                       TasksDir(TRUE, TasksOf(<<<<"B", " ", "1">>, <<"!">>>>)))
        ELSE IF path = RbPath THEN DiskEntry(path, path \in gits, rb)
        ELSE IF path = CurrentDir THEN DiskEntry(RbPath, RbPath \in gits, rb)
        ELSE IF path = SPath
        THEN DiskEntry(JoinPath(RbPath, SPath), FALSE, None)
        ELSE DiskEntry(path, FALSE, None)]

Disks == { DiskWith(gits) : gits \in SUBSET {RootPath, RPath, RbPath} }

\* The directories find_project_from starts from.
StartDirs ==
    {RootPath, AbPath, RPath, RbPath, UPath, MissingPath,
     JoinPath(RbPath, <<"n">>), SPath}

\* Most projects in the registry of the lookup model.
MaxProjects == 3

\* str::to_lowercase
ToLowercase(s) == [i \in 1..Len(s) |-> ToLower(s[i])]

\* The registered paths whose directory name starts with the name, both in
\* lower case.
PrefixMatches(ps, name) ==
    { path \in ps :
        /\ FileName(path) # None
        /\ StartsWith(ToLowercase(FileName(path)[1]), ToLowercase(name)) }

\* Mutant: several prefix matches, and one of them is returned.
FindProjectAnyPrefix(ps, name) ==
    LET exact == { path \in ps :
                     /\ FileName(path) # None
                     /\ ToLowercase(FileName(path)[1]) = ToLowercase(name) }
    IN  IF exact # {} THEN { Some(path) : path \in exact }
        ELSE IF PrefixMatches(ps, name) # {}
        THEN { Some(path) : path \in PrefixMatches(ps, name) }
        ELSE { None }

\* ProjectRegistry::find_project: what it may return.  The first loop
\* returns the first exact match in the order the set is iterated.
FindProject(ps, name) ==
    LET exact == { path \in ps :
                     /\ FileName(path) # None
                     /\ ToLowercase(FileName(path)[1]) = ToLowercase(name) }
    IN  IF exact # {} THEN { Some(path) : path \in exact }
        ELSE IF Cardinality(PrefixMatches(ps, name)) = 1
        THEN { Some(path) : path \in PrefixMatches(ps, name) }
        ELSE { None }

\* What resolve_qualified_id returns.
Resolved(err, location, id) == [err |-> err, location |-> location, id |-> id]

\* resolve_qualified_id: what it may return.
ResolveQualifiedId(idStr, ps, d, default) ==
    LET colon == Find(idStr, <<":">>)
        projectName == SubSeq(idStr, 1, colon - 1)
        idPart == SubSeq(idStr, colon + 1, Len(idStr))
    IN  IF colon > 0
        THEN IF ParseU64(idPart) = None
             THEN { Resolved("InvalidId", NoLocation, 0) }
             ELSE { IF found = None
                    THEN Resolved("ProjectNotFound", NoLocation, 0)
                    ELSE IF FindProjectFrom(d, found[1]).err # "Ok"
                    THEN Resolved("FailedToFindProject", NoLocation, 0)
                    ELSE Resolved("Ok", FindProjectFrom(d, found[1]).location,
                                  ParseU64(idPart)[1]) :
                      found \in FindProject(ps, projectName) }
        ELSE IF ParseU64(idStr) = None
             THEN { Resolved("InvalidId", NoLocation, 0) }
             ELSE IF default = None
             THEN { Resolved("NoDefaultLocation", NoLocation, 0) }
             ELSE { Resolved("Ok", default[1], ParseU64(idStr)[1]) }

\* FileStore::new(location).list(filter): what it may return.
ListLocation(d, location, filter) ==
    LET tasks == d[location.root].tasks IN
    IF tasks = None THEN ListResults(FALSE, EmptyDir, filter)
    ELSE IF ~tasks[1].readable THEN { [err |-> "Io", tasks |-> <<>>] }
    ELSE ListResults(TRUE, tasks[1].files, filter)

\* AggregatedTask
Tagged(ts, project, root) ==
    [i \in 1..Len(ts) |->
        [task |-> ts[i], project |-> project, project_path |-> root]]

\* The project name list_aggregated gives a registered path.
ProjectName(path) == IF FileName(path) = None THEN path ELSE FileName(path)[1]

\* Mutant: a project that cannot be resolved or listed ends the listing with
\* an error.
ProjectRecordsPropagates(d, path, filter) ==
    IF ~PathExists(d, path) THEN { [err |-> "Ok", records |-> <<>>] }
    ELSE IF FindProjectFrom(d, path).err # "Ok"
    THEN { [err |-> FindProjectFrom(d, path).err, records |-> <<>>] }
    ELSE { IF listed.err # "Ok"
           THEN [err |-> listed.err, records |-> <<>>]
           ELSE [err |-> "Ok",
                 records |-> Tagged(listed.tasks, ProjectName(path),
                                    FindProjectFrom(d, path).location.root)] :
             listed \in ListLocation(d, FindProjectFrom(d, path).location,
                                     filter) }

\* One round of the loop of list_aggregated: the records pushed for one
\* registered path.  A path that does not exist, cannot be resolved or cannot
\* be listed is logged and the round ends without an error.
ProjectRecords(d, path, filter) ==
    IF ~PathExists(d, path) THEN { [err |-> "Ok", records |-> <<>>] }
    ELSE IF FindProjectFrom(d, path).err # "Ok"
    THEN { [err |-> "Ok", records |-> <<>>] }
    ELSE { IF listed.err # "Ok"
           THEN [err |-> "Ok", records |-> <<>>]
           ELSE [err |-> "Ok",
                 records |-> Tagged(listed.tasks, ProjectName(path),
                                    FindProjectFrom(d, path).location.root)] :
             listed \in ListLocation(d, FindProjectFrom(d, path).location,
                                     filter) }

\* The loop of list_aggregated over the registered paths in the order given:
\* the records pushed, or the error that ended the loop.
RECURSIVE AggregateAll(_, _, _)
AggregateAll(d, order, filter) ==
    IF order = <<>> THEN { [err |-> "Ok", records |-> <<>>] }
    ELSE { IF head.err # "Ok" THEN head
           ELSE IF rest.err # "Ok" THEN rest
           ELSE [err |-> "Ok", records |-> head.records \o rest.records] :
             head \in ProjectRecords(d, order[1], filter),
             rest \in AggregateAll(d, Tail(order), filter) }

\* The characters of the directory names of the model, in the order of their
\* codes.
CharOrder == <<"A", "B", "a", "b", "n", "r", "u">>

CharRank(c) == CHOOSE i \in 1..Len(CharOrder) : CharOrder[i] = c

\* str::cmp: -1, 0 or 1.
RECURSIVE StrCmp(_, _)
StrCmp(a, b) ==
    IF a = <<>> /\ b = <<>> THEN 0
    ELSE IF a = <<>> THEN -1
    ELSE IF b = <<>> THEN 1
    ELSE IF CharRank(a[1]) < CharRank(b[1]) THEN -1
    ELSE IF CharRank(a[1]) > CharRank(b[1]) THEN 1
    ELSE StrCmp(Tail(a), Tail(b))

\* a.project.cmp(&b.project).then_with(|| a.task.id.cmp(&b.task.id)) is not
\* Greater.
AggregatedLeq(a, b) ==
    \/ StrCmp(a.project, b.project) < 0
    \/ StrCmp(a.project, b.project) = 0 /\ a.task.id <= b.task.id

RECURSIVE InsertAggregated(_, _)
InsertAggregated(rs, r) ==
    IF rs = <<>> THEN <<r>>
    ELSE IF AggregatedLeq(rs[Len(rs)], r) THEN Append(rs, r)
    ELSE Append(InsertAggregated(SubSeq(rs, 1, Len(rs) - 1), r), rs[Len(rs)])

\* results.sort_by(..): a stable sort.
RECURSIVE SortAggregated(_)
SortAggregated(rs) ==
    IF rs = <<>> THEN <<>>
    ELSE InsertAggregated(SortAggregated(SubSeq(rs, 1, Len(rs) - 1)),
                          rs[Len(rs)])

\* list_aggregated: what it may return.
ListAggregated(ps, d, filter) ==
    UNION { { IF pushed.err # "Ok" THEN pushed
              ELSE [err |-> "Ok", records |-> SortAggregated(pushed.records)] :
                pushed \in AggregateAll(d, order, filter) } :
            order \in Orders(ps) }

\* The paths `link` has put in the registry.
RegisteredPool == {AbPath, AbbPath, RbPath, UPath, MissingPath, UAbPath}

\* The names callers look up.
ProjectNames ==
    { <<"a", "b">>, <<"A", "B">>, <<"a">>, <<"b">>, <<"B">>, <<"a", "b", "b">>,
      <<"b", "a">>, <<"n">>, <<"u">>, <<>> }

\* The task ids callers hand to resolve_qualified_id.
QualifiedIds ==
    { <<"a", "b", ":", "7">>, <<"A", "B", ":", "7">>, <<"a", ":", "7">>,
      <<"b", ":", "7">>, <<"n", ":", "7">>, <<"u", ":", "7">>,
      <<"r", ":", "7">>, <<"a", "b", ":", "x">>, <<"a", "b", ":">>,
      <<":", "7">>, <<"7">>, <<"x">>, <<"a", "b", ":", "+", "7">>,
      <<"+", "7">>, <<"a", "b", ":", "7", ":", "7">> }

\* The default locations callers hand to resolve_qualified_id.
DefaultLocations ==
    { None, Some(ProjectLocation(RPath)),
      Some([root |-> UPath, tasks_dir |-> JoinPath(UPath, TasksDirName),
            is_global |-> TRUE]) }

\* The filters callers hand to list_aggregated.
AggregatedFilters ==
    { DefaultFilter,
      [DefaultFilter EXCEPT !.include_archived = TRUE],
      [DefaultFilter EXCEPT !.status = Some("pending")] }

\* A registry as loaded, a disk, and the arguments of the call to come.
InitProjects ==
    /\ dirExists = FALSE
    /\ files = EmptyDir
    /\ prev = [dirExists |-> FALSE, files |-> EmptyDir]
    /\ createLog = <<>>
    /\ onlyCreates = TRUE
    /\ registryFile = None
    /\ projects \in { ps \in SUBSET RegisteredPool :
                        Cardinality(ps) <= MaxProjects }
    /\ disk \in Disks
    /\ NoProcesses
    /\ result \in
         [op : {"name"}, err : {"Ok"}, name : ProjectNames]
         \cup [op : {"id"}, err : {"Ok"}, id_str : QualifiedIds,
               default_location : DefaultLocations]
         \cup [op : {"filter"}, err : {"Ok"}, filter : AggregatedFilters]
         \cup [op : {"start"}, err : {"Ok"}, start : StartDirs]

\* registry.find_project(name)
FindProjectCall ==
    /\ result.op = "name"
    /\ \E found \in FindProject(projects, result.name) :
         Returns([op |-> "find_project", err |-> "Ok", name |-> result.name,
                  found |-> found])

\* store.resolve_qualified_id(id_str, registry)
ResolveQualifiedIdCall ==
    /\ result.op = "id"
    /\ \E res \in ResolveQualifiedId(result.id_str, projects, disk,
                                     result.default_location) :
         Returns([op |-> "resolve_qualified_id", err |-> res.err,
                  id_str |-> result.id_str,
                  default_location |-> result.default_location,
                  location |-> res.location, id |-> res.id])

\* FileStore::list_aggregated(registry, filter)
ListAggregatedCall ==
    /\ result.op = "filter"
    /\ \E res \in ListAggregated(projects, disk, result.filter) :
         Returns([op |-> "list_aggregated", err |-> res.err,
                  filter |-> result.filter, records |-> res.records])

\* TaskLocation::find_project_from(start)
FindProjectFromCall ==
    /\ result.op = "start"
    /\ Returns([op |-> "find_project_from",
                err |-> FindProjectFrom(disk, result.start).err,
                start |-> result.start,
                location |-> FindProjectFrom(disk, result.start).location])

NextProjects ==
    \/ FindProjectCall
    \/ ResolveQualifiedIdCall
    \/ ListAggregatedCall
    \/ FindProjectFromCall

SpecProjects == InitProjects /\ [][NextProjects]_vars

----------------------------------------------------------------------------
\* Properties of project lookup

EqualsIgnoringCase(a, b) ==
    /\ Len(a) = Len(b)
    /\ \A i \in 1..Len(a) : ToLower(a[i]) = ToLower(b[i])

StartsWithIgnoringCase(s, p) ==
    /\ Len(p) <= Len(s)
    /\ \A i \in 1..Len(p) : ToLower(s[i]) = ToLower(p[i])

\* The registered paths whose directory name is the name, case aside.
ExactOf(ps, name) ==
    { path \in ps : /\ FileName(path) # None
                    /\ EqualsIgnoringCase(FileName(path)[1], name) }

\* The registered paths whose directory name starts with the name, case aside.
PrefixOf(ps, name) ==
    { path \in ps : /\ FileName(path) # None
                    /\ StartsWithIgnoringCase(FileName(path)[1], name) }

\* C25: find_project(name) returns a registered path whose directory name is
\* the name, case aside, when there is one, whatever other names start with
\* it; otherwise the one registered path whose directory name starts with the
\* name, case aside, when there is exactly one; otherwise none.
C25_FindProject ==
    result.op = "find_project" =>
        IF ExactOf(projects, result.name) # {}
        THEN /\ result.found # None
             /\ result.found[1] \in ExactOf(projects, result.name)
        ELSE IF Cardinality(PrefixOf(projects, result.name)) = 1
        THEN /\ result.found # None
             /\ result.found[1] \in PrefixOf(projects, result.name)
        ELSE result.found = None

\* A lookup by a name that two directory names start with and none equals.
C25_Witness ==
    /\ result.op = "find_project"
    /\ ExactOf(projects, result.name) = {}
    /\ Cardinality(PrefixOf(projects, result.name)) >= 2
    /\ result.found = None

\* C26: with a default location, "project:7" for a registered project name
\* resolves to the location rooted at the registered path and id 7, "7"
\* resolves to the default location and id 7, and "nope:7" for a name no
\* registered project has fails with ProjectNotFound.
C26_ResolveQualifiedId ==
    (result.op = "resolve_qualified_id" /\ result.default_location # None) =>
        LET colon == Find(result.id_str, <<":">>)
            name == SubSeq(result.id_str, 1, colon - 1)
            idPart == SubSeq(result.id_str, colon + 1, Len(result.id_str))
        IN  /\ (colon > 0 /\ idPart = <<"7">>
                  /\ ExactOf(projects, name) # {}) =>
                    /\ result.err = "Ok"
                    /\ result.location.root \in ExactOf(projects, name)
                    /\ result.id = 7
            /\ (colon = 0 /\ result.id_str = <<"7">>) =>
                    /\ result.err = "Ok"
                    /\ result.location = result.default_location[1]
                    /\ result.id = 7
            /\ (colon > 0 /\ idPart = <<"7">>
                  /\ PrefixOf(projects, name) = {}) =>
                    result.err = "ProjectNotFound"

\* The records of a listing that carry the project name.
RecordsOf(records, project) ==
    SelectSeq(records, LAMBDA r : r.project = project)

\* C27: for every registered path that exists on disk, list_aggregated
\* returns the filtered records of the location rooted at exactly that path,
\* each tagged with the directory name of the path as project and the path
\* as project root (no records when that listing fails).
C27_RootedAtRegisteredPath ==
    result.op = "list_aggregated" =>
        \A path \in projects :
            PathExists(disk, path) =>
                \E listed \in ListLocation(disk, ProjectLocation(path),
                                           result.filter) :
                    RecordsOf(result.records, ProjectName(path))
                      = IF listed.err # "Ok" THEN <<>>
                        ELSE Tagged(listed.tasks, ProjectName(path), path)

\* The registered paths that list_aggregated cannot list: not on disk, in no
\* repository, or with a records directory that cannot be read.
Unlistable(ps, d, filter) ==
    { path \in ps :
        \/ ~PathExists(d, path)
        \/ FindProjectFrom(d, path).err # "Ok"
        \/ \A listed \in ListLocation(d, FindProjectFrom(d, path).location,
                                      filter) : listed.err # "Ok" }

\* C28: list_aggregated never fails because of one project: a registered
\* path that does not exist, cannot be resolved or cannot be listed
\* contributes no records, and the listing is the one of the registry without
\* these paths.
C28_SkipsUnlistable ==
    result.op = "list_aggregated" =>
        LET bad == Unlistable(projects, disk, result.filter) IN
        /\ result.err = "Ok"
        /\ \A path \in bad :
             RecordsOf(result.records, ProjectName(path)) = <<>>
        /\ \A path \in projects \ bad :
             \E listed \in ListLocation(disk,
                                        FindProjectFrom(disk, path).location,
                                        result.filter) :
                /\ listed.err = "Ok"
                /\ [i \in 1..Len(RecordsOf(result.records, ProjectName(path)))
                      |-> RecordsOf(result.records, ProjectName(path))[i].task]
                     = listed.tasks
        /\ \E without \in ListAggregated(projects \ bad, disk, result.filter) :
             without.records = result.records

\* A listing with records, of a registry that holds a path not on disk and a
\* path whose records directory cannot be read.
C28_Witness ==
    /\ result.op = "list_aggregated"
    /\ result.records # <<>>
    /\ \E path \in projects : ~PathExists(disk, path)
    /\ \E path \in projects :
         /\ PathExists(disk, path)
         /\ FindProjectFrom(disk, path).err = "Ok"
         /\ path \in Unlistable(projects, disk, result.filter)

\* The directory a path names: its canonical form when it is on disk.
DirectoryOf(d, path) == IF PathExists(d, path) THEN d[path].canonical ELSE path

\* A directory and its ancestors up to the root.
AncestorsOrSelf(dir) ==
    {RootPath} \cup
        { SubSeq(dir, 1, k) : k \in { j \in 2..Len(dir) :
                                        j = Len(dir) \/ dir[j + 1] = "/" } }

\* The directories with the version-control marker.
Marked(d) == { d[path].canonical : path \in { q \in DOMAIN d : d[q].git } }

\* C29: find_project_from(start) returns the location whose root is the
\* nearest directory, among start and its ancestors, that holds the
\* version-control marker, with records directory root/.tasks and the global
\* flag false, and fails with NotInGitRepo exactly when none of them holds it.
C29_NearestMarkedAncestor ==
    result.op = "find_project_from" =>
        LET marked == AncestorsOrSelf(DirectoryOf(disk, result.start))
                        \cap Marked(disk)
        IN  IF marked = {} THEN result.err = "NotInGitRepo"
            ELSE /\ result.err = "Ok"
                 /\ DirectoryOf(disk, result.location.root) \in marked
                 /\ \A dir \in marked :
                      Len(dir) <= Len(DirectoryOf(disk, result.location.root))
                 /\ result.location.tasks_dir
                      = JoinPath(result.location.root, TasksDirName)
                 /\ result.location.is_global = FALSE

----------------------------------------------------------------------------
\* Completing records and setting their status

\* Utc::now() at the calls of the model; the records are created at 1.
Now == 2

\* TaskStatus
Statuses == {"pending", "in-progress", "completed", "archived"}

\* GitOperations::head_commit_optional: what HEAD may be at a call.
HeadCommits == {None, Some("abc123"), Some("def456")}

\* Task::complete
Complete(task, commit) ==
    [task EXCEPT !.status = "completed", !.closed_commit = commit,
                 !.updated = Now]

\* Commands::Status and tool_set_task_status, between read and update.
WithStatus(task, status, commit) ==
    [task EXCEPT !.status = status,
                 !.closed_commit =
                     IF status = "completed" /\ task.status # "completed"
                     THEN commit ELSE task.closed_commit,
                 !.updated = Now]

\* store.update(&task) at the end of a command, the record having been read
\* by this command.
UpdateAs(op, task) ==
    LET found == FindTaskFile(dirExists, files, task.id)
        res(err) == Result(op, err, Some(task.id), Some(task))
    IN  IF found.err # "Ok"
        THEN Step(dirExists, files, res(found.err))
        ELSE \E oldPath \in found.paths :
               \/ /\ oldPath # TaskPath(task)
                  /\ Step(dirExists, files, res("Io"))
               \/ \E wrOk \in BOOLEAN :
                    Step(dirExists, UpdateFiles(files, oldPath, task, wrOk),
                         res(IF wrOk THEN "Ok" ELSE "Io"))

\* A records directory with a pending record 1 and a record 2 completed at
\* commit abc123.
InitStatus ==
    /\ dirExists = TRUE
    /\ files = TasksOf(<<<<"A">>, <<"a", "!">>>>)
    /\ result = Result("none", "Ok", None, None)
    /\ prev = [dirExists |-> TRUE, files |-> files]
    /\ createLog = <<>>
    /\ onlyCreates = TRUE
    /\ NoRegistry
    /\ NoProcesses

\* Commands::Complete and tool_complete_task, for one id.
CompleteCall(id, commit) ==
    \E r \in ReadResults(dirExists, files, id) :
        IF r.err # "Ok"
        THEN Step(dirExists, files, Result("complete", r.err, Some(id), None))
        ELSE UpdateAs("complete", Complete(r.task[1], commit))

\* Commands::Status and tool_set_task_status
SetStatusCall(id, status, commit) ==
    \E r \in ReadResults(dirExists, files, id) :
        IF r.err # "Ok"
        THEN Step(dirExists, files,
                  Result("set_status", r.err, Some(id), None))
        ELSE UpdateAs("set_status", WithStatus(r.task[1], status, commit))

NextStatus ==
    \/ \E id \in Ids, commit \in HeadCommits : CompleteCall(id, commit)
    \/ \E id \in Ids, status \in Statuses, commit \in HeadCommits :
         SetStatusCall(id, status, commit)

SpecStatus == InitStatus /\ [][NextStatus]_vars

\* The record a directory holds under an id, when it holds one.
StoredRecord(fs, id) ==
    LET names == { n \in DOMAIN fs : IsMd(n)
                                     /\ ExtractIdFromFilename(n) = Some(id) }
    IN  IF names = {} THEN None ELSE ParseTask(fs[CHOOSE n \in names : TRUE])

\* C30: over any sequence of complete and set-status operations, the
\* closed_commit of a record changes only in an operation that moves its
\* status from a status other than completed to completed; every other
\* operation, completing a completed record included, leaves it unchanged.
C30_ClosedCommitOnlyOnTransition ==
    result.op \in {"complete", "set_status"} =>
        \A id \in Ids :
            LET before == StoredRecord(prev.files, id)
                after == StoredRecord(files, id)
            IN  (before # None /\ after # None
                   /\ after[1].closed_commit # before[1].closed_commit) =>
                    /\ before[1].status # "completed"
                    /\ after[1].status = "completed"

----------------------------------------------------------------------------
\* Two processes creating records in the same directory

\* Largest identifier the two creating processes are followed to.
MaxCreated == 2

\* The processes working on the directory.
Processes == {1, 2}

\* The records the two processes create: two whose titles give the same
\* file name under one id, and one with another.
CreatorDrafts ==
    { DraftTitled(<<"A">>), DraftTitled(<<"a", "!">>),
      DraftTitled(<<"B", " ", "1">>) }

\* A process between two calls.  done is the record its last create returned
\* (None before the first), latest tells whether it wrote after the other
\* process did.
Idle(done, latest) ==
    [pc |-> "idle", task |-> None, done |-> done, latest |-> latest]

\* A store with an empty records directory, and two processes.
InitCreators ==
    /\ dirExists = TRUE
    /\ files = EmptyDir
    /\ result = Result("none", "Ok", None, None)
    /\ prev = [dirExists |-> TRUE, files |-> EmptyDir]
    /\ createLog = <<>>
    /\ onlyCreates = TRUE
    /\ NoRegistry
    /\ procs = [p \in Processes |-> Idle(None, FALSE)]

\* FileStore::create up to the assignment of the id: the directory scan of
\* next_id.
CreateScan(p, draft) ==
    /\ procs[p].pc = "idle"
    /\ LocationExists(dirExists)
    /\ NextId(dirExists, files) <= MaxCreated
    /\ procs' = [procs EXCEPT ![p].pc = "write",
                              ![p].task =
                                  Some([draft EXCEPT
                                          !.id = NextId(dirExists, files)])]
    /\ UNCHANGED <<dirExists, files, result, prev, createLog, onlyCreates,
                   projects, registryFile, disk>>

\* FileStore::create from std::fs::write on: the file is written under the
\* name made of the title and the id assigned at the scan.
CreateWrite(p) ==
    /\ procs[p].pc = "write"
    /\ files' = CreateFiles(files, procs[p].task[1])
    /\ prev' = [dirExists |-> dirExists, files |-> files]
    /\ result' = Result("create", "Ok", Some(procs[p].task[1].id),
                        procs[p].task)
    /\ procs' = [q \in Processes |->
                    IF q = p THEN Idle(procs[p].task, TRUE)
                    ELSE [procs[q] EXCEPT !.latest = FALSE]]
    /\ UNCHANGED <<dirExists, createLog, onlyCreates, projects, registryFile,
                   disk>>

\* FileStore::read by either process, between the steps of the other.
ReadBetween(id) ==
    /\ \E r \in ReadResults(dirExists, files, id) :
         /\ result' = r
         /\ prev' = [dirExists |-> dirExists, files |-> files]
    /\ UNCHANGED <<dirExists, files, createLog, onlyCreates, projects,
                   registryFile, disk, procs>>

NextCreators ==
    \/ \E p \in Processes, draft \in CreatorDrafts : CreateScan(p, draft)
    \/ \E p \in Processes : CreateWrite(p)
    \/ \E id \in 1..MaxCreated : ReadBetween(id)

SpecCreators == InitCreators /\ [][NextCreators]_vars

\* The records two processes were returned under one id.
SameIdPairs ==
    { pair \in Processes \X Processes :
        /\ pair[1] # pair[2]
        /\ procs[pair[1]].done # None
        /\ procs[pair[2]].done # None
        /\ procs[pair[1]].done[1].id = procs[pair[2]].done[1].id
        /\ procs[pair[2]].latest }

\* C31: when two concurrent creates were assigned the same identifier, either
\* their file names are identical and the one file carrying the identifier
\* holds the last writer's record, or two files carry the identifier and a
\* read by it may return either record.
C31_ConcurrentCreateCollision ==
    \A pair \in SameIdPairs :
        LET first == procs[pair[1]].done[1]
            last == procs[pair[2]].done[1]
            carriers == { n \in DOMAIN files :
                            IsMd(n) /\ ExtractIdFromFilename(n) = Some(last.id) }
        IN  IF Filename(first) = Filename(last)
            THEN /\ carriers = {Filename(last)}
                 /\ files[Filename(last)] = SerializeTask(last)
                 /\ \A r \in ReadResults(dirExists, files, last.id) :
                      r.task = ParseTask(SerializeTask(last))
            ELSE /\ carriers = {Filename(first), Filename(last)}
                 /\ FindTaskFile(dirExists, files, last.id).paths = carriers
                 /\ { r.task : r \in ReadResults(dirExists, files, last.id) }
                      = { ParseTask(SerializeTask(first)),
                          ParseTask(SerializeTask(last)) }

\* Two creates were returned the same identifier under two file names, and a
\* read by that identifier returned the record written first.
C31_Witness ==
    \E pair \in SameIdPairs :
        /\ Filename(procs[pair[1]].done[1]) # Filename(procs[pair[2]].done[1])
        /\ result.op = "read"
        /\ result.err = "Ok"
        /\ result.task = ParseTask(SerializeTask(procs[pair[1]].done[1]))

----------------------------------------------------------------------------
\* An update in steps, with another process reading

\* The process that updates; the other one reads.
Updaters == {1}

\* A process inside update: at the removal of the old file or at the write
\* of the new one.  old is the path find_task_file returned, removed tells
\* whether this call removed it.
Updating(pc, task, old, removed) ==
    [pc |-> pc, task |-> Some(task), old |-> old, removed |-> removed,
     done |-> None, latest |-> FALSE]

\* A records directory holding records 1 and 2, and two processes.
InitUpdater ==
    /\ dirExists = TRUE
    /\ files = TasksOf(<<<<"A">>, <<"B", " ", "1">>>>)
    /\ result = Result("none", "Ok", None, None)
    /\ prev = [dirExists |-> TRUE, files |-> files]
    /\ createLog = <<>>
    /\ onlyCreates = TRUE
    /\ NoRegistry
    /\ procs = [p \in Processes |-> Idle(None, FALSE)]

\* What a step of a call in progress leaves: the directory, the position of
\* the process, and what the call returned if it ended.
ProcessStep(p, fs2, proc, res) ==
    /\ files' = fs2
    /\ procs' = [procs EXCEPT ![p] = proc]
    /\ result' = res
    /\ prev' = [dirExists |-> dirExists, files |-> files]
    /\ UNCHANGED <<dirExists, createLog, onlyCreates, projects, registryFile,
                   disk>>

\* FileStore::update up to the comparison of the paths: find_task_file and
\* task_path.
UpdateFind(p, task) ==
    /\ procs[p].pc = "idle"
    /\ LET found == FindTaskFile(dirExists, files, task.id) IN
       IF found.err # "Ok"
       THEN ProcessStep(p, files, procs[p],
                        Result("update", found.err, Some(task.id), Some(task)))
       ELSE \E oldPath \in found.paths :
              ProcessStep(p, files,
                          Updating(IF oldPath # TaskPath(task)
                                   THEN "remove" ELSE "write",
                                   task, oldPath, FALSE),
                          Result("update_find", "Ok", Some(task.id),
                                 Some(task)))

\* FileStore::update, std::fs::remove_file(&old_path): the old file goes, or
\* the call ends with the error.
UpdateRemove(p) ==
    /\ procs[p].pc = "remove"
    /\ LET task == procs[p].task[1] IN
       \E rmOk \in BOOLEAN :
          IF rmOk /\ procs[p].old \in DOMAIN files
          THEN ProcessStep(p, UpdateFiles(files, procs[p].old, task, FALSE),
                           Updating("write", task, procs[p].old, TRUE),
                           Result("update_remove", "Ok", Some(task.id),
                                  Some(task)))
          ELSE ProcessStep(p, files, Idle(None, FALSE),
                           Result("update", "Io", Some(task.id), Some(task)))

\* FileStore::update, serialize_task and std::fs::write(&new_path, content).
UpdateWrite(p) ==
    /\ procs[p].pc = "write"
    /\ LET task == procs[p].task[1] IN
       \E wrOk \in BOOLEAN :
          ProcessStep(p, UpdateFiles(files, TaskPath(task), task, wrOk),
                      Idle(None, FALSE),
                      Result("update", IF wrOk THEN "Ok" ELSE "Io",
                             Some(task.id), Some(task)))

\* The updating process is killed inside update.
Crash(p) ==
    /\ procs[p].pc # "idle"
    /\ ProcessStep(p, files, Idle(None, FALSE),
                   Result("crash", "Ok", Some(procs[p].task[1].id),
                          procs[p].task))

NextUpdater ==
    \/ \E p \in Updaters, draft \in Drafts, id \in Ids :
         UpdateFind(p, [draft EXCEPT !.id = id])
    \/ \E p \in Updaters : UpdateRemove(p)
    \/ \E p \in Updaters : UpdateWrite(p)
    \/ \E p \in Updaters : Crash(p)
    \/ \E id \in Ids : ReadBetween(id)

SpecUpdater == InitUpdater /\ [][NextUpdater]_vars

\* C32: an update that changes the file name removes the old file before it
\* writes the new one: between the two steps no file carries the identifier,
\* a read by it in that state or after a crash there finds no record, and in
\* no state of the update do two files carry the identifier.
C32_RemoveBeforeWrite ==
    /\ \A id \in Ids : Cardinality(Carriers(files, id)) <= 1
    /\ \A p \in Updaters :
         (procs[p].pc = "write" /\ procs[p].removed) =>
            /\ Carriers(files, procs[p].task[1].id) = {}
            /\ \A r \in ReadResults(dirExists, files, procs[p].task[1].id) :
                 r.err = "TaskNotFound"
    /\ (result.op = "crash" /\ Carriers(prev.files, result.id[1]) = {}) =>
         \A r \in ReadResults(dirExists, files, result.id[1]) :
            r.err = "TaskNotFound"

\* The other process read the identifier of a record of the directory while
\* its update was between the removal and the write, and found nothing.
C32_Witness ==
    /\ result.op = "read"
    /\ result.err = "TaskNotFound"
    /\ result.id[1] \in {1, 2}
    /\ \E p \in Updaters :
         /\ procs[p].pc = "write"
         /\ procs[p].removed
         /\ procs[p].task[1].id = result.id[1]

----------------------------------------------------------------------------
\* Two processes changing the registry

\* The paths the two processes link and unlink.
SharedPaths == {AbPath, UPath}

\* A process of the registry model: where it is, the set it loaded and
\* changed, and the call it made last with what it returned.
Registrar(pc, ps, last) == [pc |-> pc, projects |-> ps, last |-> last]

NoCall == [op |-> "none", path |-> <<>>, ret |-> "none"]

\* Mutant: save reads the file again and writes the union.
SaveFileMerging(file, ps, order) ==
    Some(SaveText(CHOOSE o \in Orders(LoadFrom(file) \cup ps) : TRUE))

\* ProjectRegistry::save: fs::write replaces whatever the file holds by the
\* lines of the set in memory, written in the order given.
SaveFile(file, ps, order) == Some(SaveText(order))

\* No registry file, a disk, and two processes that have loaded nothing.
InitRegistrars ==
    /\ dirExists = FALSE
    /\ files = EmptyDir
    /\ result = [op |-> "none", err |-> "Ok", proc |-> 0, path |-> <<>>,
                 ret |-> "none", after |-> {}]
    /\ prev = [dirExists |-> FALSE, files |-> EmptyDir]
    /\ createLog = <<>>
    /\ onlyCreates = TRUE
    /\ projects = {}
    /\ registryFile = None
    /\ disk = DiskWith({})
    /\ procs = [p \in Processes |-> Registrar("idle", {}, NoCall)]

\* One step of a process of the registry model.
RegistrarStep(p, proc, file, op, path, ret) ==
    /\ procs' = [procs EXCEPT ![p] = proc]
    /\ registryFile' = file
    /\ result' = [op |-> op, err |-> IF ret = "Io" THEN "Io" ELSE "Ok",
                  proc |-> p, path |-> path, ret |-> ret,
                  after |-> proc.projects]
    /\ UNCHANGED <<dirExists, files, prev, createLog, onlyCreates, projects,
                   disk>>

\* ProjectRegistry::load in process p.
LoadBy(p) ==
    /\ procs[p].pc = "idle"
    /\ RegistrarStep(p, Registrar("loaded", LoadFrom(registryFile),
                                  procs[p].last),
                     registryFile, "load", <<>>, "none")

\* The end of link or unlink in process p: the set is saved when the call
\* changed it, and the process ends.
SaveBy(p, op, path, ps) ==
    IF ps = procs[p].projects
    THEN RegistrarStep(p, Registrar("idle", ps,
                                    [op |-> op, path |-> path,
                                     ret |-> "false"]),
                       registryFile, op, path, "false")
    ELSE \E order \in Orders(ps), wrOk \in BOOLEAN :
           RegistrarStep(p, Registrar("idle", ps,
                                      [op |-> op, path |-> path,
                                       ret |-> IF wrOk THEN "true" ELSE "Io"]),
                         IF wrOk THEN SaveFile(registryFile, ps, order)
                         ELSE registryFile,
                         op, path, IF wrOk THEN "true" ELSE "Io")

\* ProjectRegistry::link in process p, on the set it loaded.
LinkBy(p, path) ==
    /\ procs[p].pc = "loaded"
    /\ SaveBy(p, "link", path,
              procs[p].projects \cup
                  {IF PathExists(disk, path) THEN Canonicalize(disk, path)
                   ELSE path})

\* ProjectRegistry::unlink in process p, on the set it loaded.
UnlinkBy(p, path) ==
    /\ procs[p].pc = "loaded"
    /\ SaveBy(p, "unlink", path,
              IF path \in procs[p].projects THEN procs[p].projects \ {path}
              ELSE IF PathExists(disk, path)
              THEN procs[p].projects \ {Canonicalize(disk, path)}
              ELSE procs[p].projects)

NextRegistrars ==
    \/ \E p \in Processes : LoadBy(p)
    \/ \E p \in Processes, path \in SharedPaths : LinkBy(p, path)
    \/ \E p \in Processes, path \in SharedPaths : UnlinkBy(p, path)

SpecRegistrars == InitRegistrars /\ [][NextRegistrars]_vars

\* C33: the registry file reflects only the last saver's set: after a link
\* or unlink that returned true, load yields the set that process loaded,
\* changed by its own call, whatever the other process saved in between.
C33_LastSaveWins ==
    (result.op \in {"link", "unlink"} /\ result.ret = "true") =>
        /\ LoadFrom(registryFile) = result.after
        /\ result.after = procs[result.proc].projects

\* Both processes loaded the empty registry and linked a path each, both
\* calls returned true, and the file holds only the path of the one that
\* saved last.
C33_Witness ==
    /\ result.op = "link"
    /\ result.ret = "true"
    /\ \E p \in Processes :
         /\ p # result.proc
         /\ procs[p].pc = "idle"
         /\ procs[p].last.op = "link"
         /\ procs[p].last.ret = "true"
         /\ procs[p].last.path # result.path
         /\ procs[p].last.path \notin LoadFrom(registryFile)
         /\ LoadFrom(registryFile) = {result.path}

----------------------------------------------------------------------------
\* Further properties of resolve_qualified_id

\* An unsigned decimal integer: a non-empty run of decimal digits.
IsDecimal(s) == s # <<>> /\ \A i \in 1..Len(s) : IsDigit(s[i])

\* C34: resolve_qualified_id fails with InvalidId whenever the identifier
\* part (the text after the first colon, the whole string without a colon) is
\* not an unsigned decimal integer; with a valid identifier part it fails
\* with ProjectNotFound exactly when there is a colon and find_project
\* returns none, and with NoDefaultLocation exactly when there is no colon
\* and no default location.
C34_ResolveErrors ==
    result.op = "resolve_qualified_id" =>
        LET colon == Find(result.id_str, <<":">>)
            name == SubSeq(result.id_str, 1, colon - 1)
            idPart == SubSeq(result.id_str, colon + 1, Len(result.id_str))
            none == /\ ExactOf(projects, name) = {}
                    /\ Cardinality(PrefixOf(projects, name)) # 1
        IN  IF ~IsDecimal(idPart) THEN result.err = "InvalidId"
            ELSE /\ result.err = "ProjectNotFound" <=> (colon > 0 /\ none)
                 /\ result.err = "NoDefaultLocation"
                      <=> (colon = 0 /\ result.default_location = None)

----------------------------------------------------------------------------
\* Creates after deletes

\* What a call returned, with the history of the deletes: the ids deleted
\* while a larger id was in the directory, the id this call deleted when it
\* was the largest, and for a create the id so deleted by the call before it.
Tracked(op, err, id, task, below, lastMax, followed) ==
    [op |-> op, err |-> err, id |-> id, task |-> task,
     deletedBelow |-> below, lastDeletedMax |-> lastMax,
     followed |-> followed]

\* The records created in the model of creates after deletes.
ReuseDrafts == { DraftTitled(<<"A">>), DraftTitled(<<"B", " ", "1">>) }

\* An empty, initialised records directory.
InitReuse ==
    /\ dirExists = TRUE
    /\ files = EmptyDir
    /\ result = Tracked("none", "Ok", None, None, {}, None, None)
    /\ prev = [dirExists |-> TRUE, files |-> EmptyDir]
    /\ createLog = <<>>
    /\ onlyCreates = TRUE
    /\ NoRegistry
    /\ NoProcesses

\* FileStore::create
CreateNext(draft) ==
    /\ LocationExists(dirExists)
    /\ NextId(dirExists, files) <= MaxId
    /\ LET task == [draft EXCEPT !.id = NextId(dirExists, files)] IN
       \E wrOk \in BOOLEAN :
          IF wrOk
          THEN Step(dirExists, CreateFiles(files, task),
                    Tracked("create", "Ok", Some(task.id), Some(task),
                            result.deletedBelow, None,
                            result.lastDeletedMax))
          ELSE Step(dirExists, files,
                    Tracked("create", "Io", None, None, result.deletedBelow,
                            None, None))

\* FileStore::delete
DeleteOne(id) ==
    LET found == FindTaskFile(dirExists, files, id) IN
    IF found.err # "Ok"
    THEN Step(dirExists, files,
              Tracked("delete", found.err, Some(id), None,
                      result.deletedBelow, None, None))
    ELSE \E path \in found.paths, rmOk \in BOOLEAN :
           IF rmOk
           THEN Step(dirExists, DeleteFiles(files, path),
                     Tracked("delete", "Ok", Some(id), None,
                             IF id < FindMaxId(dirExists, files)
                             THEN result.deletedBelow \cup {id}
                             ELSE result.deletedBelow,
                             IF id = FindMaxId(dirExists, files)
                             THEN Some(id) ELSE None,
                             None))
           ELSE Step(dirExists, files,
                     Tracked("delete", "Io", Some(id), None,
                             result.deletedBelow, None, None))

NextReuse ==
    \/ \E draft \in ReuseDrafts : CreateNext(draft)
    \/ \E id \in Ids : DeleteOne(id)

SpecReuse == InitReuse /\ [][NextReuse]_vars

\* The ids the .md files of a directory carry.
PresentIds(fs) ==
    { id \in 0..(MaxId + 1) : Carriers(fs, id) # {} }

\* C35 as stated: create assigns 1 plus the largest identifier in the
\* directory, the create that follows the deletion of the largest identifier
\* assigns that identifier again, and the identifier of a record deleted
\* while below the maximum is never assigned again.
C35_NeverReassigned ==
    (result.op = "create" /\ result.err = "Ok") =>
        /\ \A id \in PresentIds(prev.files) : result.id[1] > id
        /\ result.id[1] - 1 \in PresentIds(prev.files) \cup {0}
        /\ result.followed # None => result.id[1] = result.followed[1]
        /\ result.id[1] \notin result.deletedBelow

\* C35 amended: create assigns 1 plus the largest identifier in the
\* directory; the create that follows the deletion of the largest identifier
\* assigns that identifier again when the identifier just below it is still
\* in the directory (or it was 1), and a smaller one otherwise; the identifier
\* of a deleted record is not assigned again as long as a larger identifier
\* is in the directory.
C35_ReassignedOnlyAtTop ==
    (result.op = "create" /\ result.err = "Ok") =>
        /\ \A id \in PresentIds(prev.files) : result.id[1] > id
        /\ result.id[1] - 1 \in PresentIds(prev.files) \cup {0}
        /\ result.followed # None =>
             /\ result.id[1] <= result.followed[1]
             /\ result.followed[1] - 1 \in PresentIds(prev.files) \cup {0}
                  => result.id[1] = result.followed[1]
        /\ \A id \in result.deletedBelow :
             (\E larger \in PresentIds(prev.files) : larger > id) =>
                result.id[1] # id

\* A create right after the deletion of the largest identifier returned that
\* identifier, while a smaller identifier deleted earlier stays unassigned
\* below a record still present.
C35_Witness ==
    /\ result.op = "create"
    /\ result.err = "Ok"
    /\ result.followed = result.id
    /\ \E id \in result.deletedBelow :
         /\ id \notin PresentIds(files)
         /\ \E larger \in PresentIds(prev.files) : larger > id

----------------------------------------------------------------------------
\* Further properties of project lookup and of the listing filter

\* C36: find_project(name) is a function of the set of registered paths and
\* of the name: whatever the order the set is iterated in, the call can
\* return one result only, also when two registered paths have the same
\* directory name, case aside.
C36_FindProjectDeterministic ==
    result.op = "find_project" =>
        FindProject(projects, result.name) = {result.found}

\* C37: the archived exclusion applies together with the status filter: list
\* with status = archived and include_archived = false returns an empty
\* sequence whatever the directory holds, and a listing holds archived
\* records only when include_archived is true.
C37_ArchivedNeedsOptIn ==
    (result.op = "list" /\ result.err = "Ok") =>
        /\ (result.filter.status = Some("archived")
              /\ ~result.filter.include_archived) => result.tasks = <<>>
        /\ (\E t \in Range(result.tasks) : t.status = "archived")
              => result.filter.include_archived

\* The directory holds an archived record and the listing asked for the
\* status archived without include_archived is empty.
C37_Witness ==
    /\ result.op = "list"
    /\ result.err = "Ok"
    /\ result.filter.status = Some("archived")
    /\ ~result.filter.include_archived
    /\ \E n \in ParseableMd(files) : RecordIn(files, n).status = "archived"
    /\ result.tasks = <<>>

----------------------------------------------------------------------------
\* The identifier scan at the full width of u64.  Identifiers are kept as
\* their decimal digits, without leading zeros.

\* u64::MAX
U64MaxDigits ==
    <<"1", "8", "4", "4", "6", "7", "4", "4", "0", "7", "3", "7", "0", "9",
      "5", "5", "1", "6", "1", "5">>

\* The digits without their leading zeros ("0" for zero).
RECURSIVE StripZeros(_)
StripZeros(ds) ==
    IF Len(ds) > 1 /\ ds[1] = "0" THEN StripZeros(Tail(ds)) ELSE ds

\* a < b, for two numbers without leading zeros.
RECURSIVE DigitsLess(_, _)
DigitsLess(a, b) ==
    IF Len(a) # Len(b) THEN Len(a) < Len(b)
    ELSE IF a = <<>> THEN FALSE
    ELSE IF a[1] # b[1] THEN DigitVal(a[1]) < DigitVal(b[1])
    ELSE DigitsLess(Tail(a), Tail(b))

\* str::parse::<u64> at full width: a non-empty run of decimal digits after
\* an optional "+", an error when the value is above u64::MAX.
ParseU64Wide(s) ==
    LET ds == IF s # <<>> /\ s[1] = "+" THEN Tail(s) ELSE s IN
    IF ds # <<>> /\ (\A i \in 1..Len(ds) : IsDigit(ds[i]))
          /\ ~DigitsLess(U64MaxDigits, StripZeros(ds))
    THEN Some(StripZeros(ds))
    ELSE None

\* extract_id_from_filename at full width.
ExtractIdWide(name) ==
    LET stem == FileStem(name)
        lastHyphen == RFind(stem, "-")
    IN  IF lastHyphen > 0
        THEN ParseU64Wide(SubSeq(stem, lastHyphen + 1, Len(stem)))
        ELSE None

\* max_id.max(id) over the .md entries, from 0.
FindMaxIdWide(ex, fs) ==
    LET ids == { ExtractIdWide(n)[1] :
                   n \in { m \in DOMAIN fs :
                             IsMd(m) /\ ExtractIdWide(m) # None } }
    IN  IF ~ex \/ ids = {} THEN <<"0">>
        ELSE CHOOSE id \in ids : \A other \in ids : ~DigitsLess(id, other)

\* n + 1 on the digits.
RECURSIVE DigitsSucc(_)
DigitsSucc(ds) ==
    IF ds = <<>> THEN <<"1">>
    ELSE IF ds[Len(ds)] = "9"
    THEN Append(DigitsSucc(SubSeq(ds, 1, Len(ds) - 1)), "0")
    ELSE Append(SubSeq(ds, 1, Len(ds) - 1),
                DigitChars[DigitVal(ds[Len(ds)]) + 2])

\* IdGenerator::next_id: what max_id + 1 may give.  At u64::MAX the addition
\* overflows: a build with overflow checks panics, a build without them wraps
\* to 0.
NextIdWide(ex, fs) ==
    IF FindMaxIdWide(ex, fs) = U64MaxDigits
    THEN { [err |-> "Panic", id |-> <<>>], [err |-> "Ok", id |-> <<"0">>] }
    ELSE { [err |-> "Ok", id |-> DigitsSucc(FindMaxIdWide(ex, fs))] }

\* The entries of the directories of the full-width scan: identifiers at and
\* around u64::MAX, small ones, one with a carry, and one under another
\* extension.
WideNames ==
    { <<"a", "-">> \o U64MaxDigits \o <<".", "m", "d">>,
      <<"a", "-">> \o U64MaxDigits \o <<".", "t", "x", "t">>,
      <<"a", "-">> \o SubSeq(U64MaxDigits, 1, 19) \o <<"4", ".", "m", "d">>,
      <<"a", "-">> \o SubSeq(U64MaxDigits, 1, 19) \o <<"6", ".", "m", "d">>,
      <<"a", "-", "0", "0", "0", ".", "m", "d">>,
      <<"a", "-", "0", "0", "1", ".", "m", "d">>,
      <<"a", "-", "9", "9", ".", "m", "d">>,
      <<"b", "-", "1", "0", "9", ".", "m", "d">> }

\* The records created in the directories of the full-width scan.
WideDrafts == { DraftTitled(<<"A">>), DraftTitled(<<"!">>) }

\* Task::filename at full width.
FilenameWide(task) ==
    Slug(task) \o <<"-">> \o PadLeft(task.id, 3) \o <<".", "m", "d">>

\* A records directory of such entries, and the call to come.
InitWide ==
    /\ dirExists \in BOOLEAN
    /\ \E names \in SUBSET WideNames :
         files = [n \in names |-> SerializeTask(DraftTitled(<<"A">>))]
    /\ dirExists \/ files = EmptyDir
    /\ result \in [op : {"scan"}, err : {"Ok"}, id : {<<>>}, task : {None}]
                 \cup [op : {"task"}, err : {"Ok"}, id : {<<>>},
                       task : { Some(d) : d \in WideDrafts }]
    /\ prev = [dirExists |-> dirExists, files |-> files]
    /\ createLog = <<>>
    /\ onlyCreates = TRUE
    /\ NoRegistry
    /\ NoProcesses

\* IdGenerator::next_id
NextIdWideCall ==
    /\ result.op = "scan"
    /\ \E res \in NextIdWide(dirExists, files) :
         Returns([op |-> "next_id", err |-> res.err, id |-> res.id,
                  task |-> None])

\* FileStore::create at full width.
CreateWide ==
    /\ result.op = "task"
    /\ prev' = [dirExists |-> dirExists, files |-> files]
    /\ IF ~LocationExists(dirExists)
       THEN /\ files' = files
            /\ result' = [op |-> "create", err |-> "DirectoryNotInitialized",
                          id |-> <<>>, task |-> None]
       ELSE \E res \in NextIdWide(dirExists, files), wrOk \in BOOLEAN :
              LET task == [result.task[1] EXCEPT !.id = res.id] IN
              IF res.err # "Ok" \/ ~wrOk
              THEN /\ files' = files
                   /\ result' = [op |-> "create",
                                 err |-> IF res.err # "Ok" THEN res.err
                                         ELSE "Io",
                                 id |-> <<>>, task |-> None]
              ELSE /\ files' = WriteFile(files, FilenameWide(task),
                                         SerializeTask(task))
                   /\ result' = [op |-> "create", err |-> "Ok",
                                 id |-> res.id, task |-> Some(task)]
    /\ UNCHANGED <<dirExists, createLog, onlyCreates, projects, registryFile,
                   disk, procs>>

NextWide ==
    \/ NextIdWideCall
    \/ CreateWide

SpecWide == InitWide /\ [][NextWide]_vars

\* A run of decimal digits that is at most u64::MAX in value.
IsU64(ds) ==
    /\ ds # <<>>
    /\ \A i \in 1..Len(ds) : IsDigit(ds[i])
    /\ ~DigitsLess(U64MaxDigits, StripZeros(ds))

\* The text after the last hyphen of the stem of a name.
IdText(name) ==
    SubSeq(FileStem(name), RFind(FileStem(name), "-") + 1,
           Len(FileStem(name)))

\* C38: next_id returns a value strictly greater than every identifier
\* decodable from the .md entries of the directory, for every directory
\* content, a file carrying u64::MAX included: no wrap-around.
C38_NextIdAboveAll ==
    (result.op = "next_id" /\ dirExists) =>
        /\ result.err = "Ok"
        /\ \A n \in DOMAIN files :
             (IsMd(n) /\ IsU64(IdText(n))) =>
                DigitsLess(StripZeros(IdText(n)), result.id)


\* C39: a successful create by a single process adds exactly one new file to
\* the records directory and leaves the name and content of every file that
\* was there unchanged: it never overwrites or removes one.
C39_CreateFrame ==
    (result.op = "create" /\ result.err = "Ok") =>
        /\ Cardinality((DOMAIN files) \ (DOMAIN prev.files)) = 1
        /\ \A n \in DOMAIN prev.files :
             n \in DOMAIN files /\ files[n] = prev.files[n]


\* C40: for every title (one whose slug is empty or ends in digits included)
\* and every identifier, decode(encode(record)) returns the identifier of the
\* record.
C40_DecodeEncode ==
    (result.op = "extract_id" /\ result.task # None) =>
        result.id = Some(result.task[1].id)

\* The record titled "B 1" with id 1000 is named b-1-1000.md and the record
\* titled "!" with id 1 is named -001.md; decode is applied to such a name.
C40_Witness ==
    /\ result.op = "extract_id"
    /\ result.task # None
    /\ \/ /\ result.task[1].title = <<"B", " ", "1">>
          /\ result.task[1].id = 1000
          /\ result.name = <<"b", "-", "1", "-", "1", "0", "0", "0",
                             ".", "m", "d">>
       \/ /\ result.task[1].title = <<"!">>
          /\ result.task[1].id = 1
          /\ result.name = <<"-", "0", "0", "1", ".", "m", "d">>
    /\ result.id # None

====
